---- MODULE Spec2Model ----
(***************************************************************************)
(* A model of jsonobjects: the dot-path resolver (path.py), the field      *)
(* validation pipeline (fields.py), schema composition and declared-field  *)
(* collection (schema.py) and failure flattening (exceptions.py).          *)
(*                                                                         *)
(* Python values are tagged records, so that values of different Python    *)
(* types are comparable.  A path expression is the sequence of its         *)
(* delimiter-separated segments; a segment is its text, quotes included.   *)
(* The outcome of a call is Ok(v) or Raise(e); every operator that models  *)
(* a method returns its outcome together with the sequence of calls it     *)
(* made to user callables and overridable hooks (a ghost log).             *)
(***************************************************************************)
EXTENDS Integers, Sequences, FiniteSets, TLC

VARIABLES
    doc,        \* the document handed to find or parse
    jmespath,   \* whether the jmespath package was importable (path.py 8-11)
    parse_datetime, \* whether dateutil was importable (fields.py 20-23)
    order,      \* the order in which a dict of fields lists its names
    types,      \* the schema classes defined so far
    call,       \* the operation applied last, with its arguments
    ret,        \* the outcome of that operation
    log,        \* the calls that operation made, in order
    heap,       \* the objects created so far, an object's identity its position
    threads     \* the execution contexts that use schema instances, each at its step

vars == <<doc, jmespath, parse_datetime, order, types, call, ret, log, heap, threads>>

(***************************************************************************)
(* Python values                                                           *)
(***************************************************************************)
\* utils.NULL, the "not found" sentinel object
NULL == [t |-> "NULL"]

None == [t |-> "none"]

PyInt(n) == [t |-> "int", n |-> n]

PyStr(s) == [t |-> "str", s |-> s]

PyList(l) == [t |-> "list", l |-> l]

PyDict(m) == [t |-> "dict", m |-> m]

EmptyMap == [k \in {} |-> None]

Ok(v) == [k |-> "ok", v |-> v]

Raise(e) == [k |-> "raise", e |-> e]

\* exceptions.NotFound
NotFound == [exc |-> "NotFound"]

\* exceptions.GenericError raised for an unknown dialect
GenericError == [exc |-> "GenericError"]

\* the interpreter's AttributeError, AssertionError and TypeError
AttributeError == [exc |-> "AttributeError"]

AssertionError == [exc |-> "AssertionError"]

\* jmespath's own failure on an expression outside its grammar
JMESPathError == [exc |-> "JMESPathError"]

\* exceptions.ValidationError(messages, field_name); messages is already a list
ValidationError(messages, field_name) ==
    [exc |-> "ValidationError", messages |-> messages, field_name |-> field_name]

\* True and False
PyBool(b) == [t |-> "bool", b |-> b]

\* datetime.date and datetime.datetime objects: the day, and the time of day
PyDate(day) == [t |-> "date", day |-> day]

PyDateTime(day, time) == [t |-> "datetime", day |-> day, time |-> time]

\* a path expression: text, held as its delimiter-separated segments ('' is <<>>)
PyPath(segs) == [t |-> "str", segs |-> segs]

\* the built-in types used as zero-argument factories (str, list, dict)
PyType(name) == [t |-> "type", name |-> name]

\* utils.is_non_str_iterable: lists and dicts have __iter__, text has not
is_non_str_iterable(value) == value.t \in {"list", "dict"}

\* utils.to_iterable, as the sequence of the items
to_iterable(value) ==
    IF is_non_str_iterable(value)
    THEN IF value.t = "list" THEN value.l ELSE <<>>
    ELSE <<value>>

\* bool(value) for None, text, lists and dicts
Truthy(value) ==
    CASE value.t = "none" -> FALSE
      [] value.t = "str" /\ "segs" \in DOMAIN value -> value.segs # <<>>
      [] value.t = "str" /\ "segs" \notin DOMAIN value -> value.s # ""
      [] value.t = "list" -> value.l # <<>>
      [] value.t = "dict" -> DOMAIN value.m # {}
      [] value.t = "int" -> value.n # 0
      [] value.t = "bool" -> value.b
      [] OTHER -> TRUE

(***************************************************************************)
(* Text: the strings of the model and what the string methods do on them   *)
(***************************************************************************)
\* the characters of each text (len(), indexing)
Chars == ("" :> <<>>) @@ ("a" :> <<"a">>) @@ (" " :> <<" ">>) @@ ("1" :> <<"1">>)
         @@ ("2" :> <<"2">>) @@ ("x" :> <<"x">>) @@ ("0" :> <<"0">>)
         @@ ("y" :> <<"y">>) @@ ("z" :> <<"z">>) @@ ("?" :> <<"?">>)
         @@ ("2015-03-13" :> <<"2", "0", "1", "5", "-", "0", "3", "-", "1", "3">>)
         @@ ("2015-03-13 12:00:00" :>
                <<"2", "0", "1", "5", "-", "0", "3", "-", "1", "3", " ",
                  "1", "2", ":", "0", "0", ":", "0", "0">>)
         @@ (" 2015-03-13 " :>
                <<" ", "2", "0", "1", "5", "-", "0", "3", "-", "1", "3", " ">>)
         @@ ("true" :> <<"t", "r", "u", "e">>) @@ ("t" :> <<"t">>)
         @@ ("yes" :> <<"y", "e", "s">>)
         @@ ("false" :> <<"f", "a", "l", "s", "e">>) @@ ("f" :> <<"f">>)
         @@ ("no" :> <<"n", "o">>) @@ ("n" :> <<"n">>)
         @@ ("TRUE" :> <<"T", "R", "U", "E">>) @@ ("T" :> <<"T">>)
         @@ ("Yes" :> <<"Y", "e", "s">>) @@ ("Y" :> <<"Y">>)
         @@ ("False" :> <<"F", "a", "l", "s", "e">>) @@ ("F" :> <<"F">>)
         @@ ("NO" :> <<"N", "O">>) @@ ("N" :> <<"N">>) @@ ("A" :> <<"A">>)

\* str.strip()
Strip == ("" :> "") @@ ("a" :> "a") @@ (" " :> "") @@ ("1" :> "1") @@ ("2" :> "2")
         @@ ("x" :> "x") @@ ("0" :> "0") @@ ("y" :> "y") @@ ("z" :> "z") @@ ("?" :> "?")
         @@ ("2015-03-13" :> "2015-03-13")
         @@ ("2015-03-13 12:00:00" :> "2015-03-13 12:00:00")
         @@ (" 2015-03-13 " :> "2015-03-13")

\* int(text): the texts int() accepts
IntOfText == ("0" :> 0) @@ ("1" :> 1) @@ ("2" :> 2)

\* str(int)
TextOfInt == (0 :> "0") @@ (1 :> "1") @@ (2 :> "2")

(***************************************************************************)
(* path.py                                                                 *)
(***************************************************************************)
\* the quoted segments of the model and their bodies
QuotedBody == ("\"1\"" :> "1") @@ ("\"?\"" :> "?") @@ ("\"x\"" :> "x")

_unquote(s) == IF s \in DOMAIN QuotedBody THEN QuotedBody[s] ELSE s

\* int(k), None when int() raises
_to_index(k) == IF k \in DOMAIN IntOfText THEN PyInt(IntOfText[k]) ELSE None

_is_mapping(v) == v.t = "dict"

_is_sequence(v) == ~_is_mapping(v) /\ v.t \in {"list", "str"}

KEY_TOK == "key"

IDX_TOK == "index"

ANY_TOK == "?"

\* Path._head: source.split(delim, 1); an absent tail (None) is <<>>
_head(source) == <<Head(source), Tail(source)>>

\* a tokenizer that takes the quotes off before it looks for a number
_token_unquoted(k) ==
    IF k = ANY_TOK THEN <<PyStr(k), ANY_TOK>>
    ELSE IF _to_index(_unquote(k)) # None THEN <<_to_index(_unquote(k)), IDX_TOK>>
    ELSE <<PyStr(_unquote(k)), KEY_TOK>>

\* Path._token: <<k, tok>>
_token(k) ==
    IF k = ANY_TOK THEN <<PyStr(k), ANY_TOK>>
    ELSE IF _to_index(k) # None THEN <<_to_index(k), IDX_TOK>>
    ELSE <<PyStr(_unquote(k)), KEY_TOK>>

\* Path._eval_key: value.get(k, NULL); only a mapping has get
_eval_key(k, value) ==
    IF value.t = "dict"
    THEN Ok(IF k.s \in DOMAIN value.m THEN value.m[k.s] ELSE NULL)
    ELSE Raise(AttributeError)

\* Path._eval_index: value[i], NULL on IndexError or TypeError
_eval_index(i, value) ==
    IF value.t = "list"
    THEN Ok(IF i.n >= 0 /\ i.n < Len(value.l) THEN value.l[i.n + 1]
            ELSE IF i.n < 0 /\ -i.n <= Len(value.l) THEN value.l[Len(value.l) + i.n + 1]
            ELSE NULL)
    ELSE Ok(IF i.n >= 0 /\ i.n < Len(Chars[value.s])
            THEN PyStr(Chars[value.s][i.n + 1])
            ELSE IF i.n < 0 /\ -i.n <= Len(Chars[value.s])
            THEN PyStr(Chars[value.s][Len(Chars[value.s]) + i.n + 1])
            ELSE NULL)

\* the order in which a dict lists its keys
KeyRank == ("x" :> 1) @@ ("y" :> 2) @@ ("1" :> 3) @@ ("?" :> 4) @@ ("z" :> 5)

FirstKey(m) == CHOOSE k \in DOMAIN m : \A j \in DOMAIN m : KeyRank[k] <= KeyRank[j]

RECURSIVE KeySeq(_)
\* the keys of a dict as the dict lists them
KeySeq(keys) ==
    IF keys = {} THEN <<>>
    ELSE LET k == CHOOSE k \in keys : \A j \in keys : KeyRank[k] <= KeyRank[j]
         IN  <<k>> \o KeySeq(keys \ {k})

\* iter(dict), dict.values(), and the place of a key in that order
DictKeys(m) == [i \in DOMAIN KeySeq(DOMAIN m) |-> PyStr(KeySeq(DOMAIN m)[i])]

DictValues(m) == [i \in DOMAIN KeySeq(DOMAIN m) |-> m[KeySeq(DOMAIN m)[i]]]

KeyIndex(m, k) == CHOOSE i \in DOMAIN KeySeq(DOMAIN m) : KeySeq(DOMAIN m)[i] = k

\* Path._eval_any: value[value.keys()[0]] if value else NULL
_eval_any(k, value) == Ok(IF value.m # EmptyMap THEN value.m[FirstKey(value.m)] ELSE NULL)

\* Path._eval: the evaluator chosen by container kind and token kind
_eval(key, data) ==
    IF _is_sequence(data)
    THEN IF _token(key)[2] = IDX_TOK THEN _eval_index(_token(key)[1], data) ELSE Ok(NULL)
    ELSE IF _is_mapping(data)
    THEN IF _token(key)[2] = ANY_TOK THEN _eval_any(_token(key)[1], data)
         ELSE IF _token(key)[2] = KEY_TOK THEN _eval_key(_token(key)[1], data)
         ELSE Ok(NULL)
    ELSE IF _token(key)[2] = KEY_TOK THEN _eval_key(_token(key)[1], data)
         ELSE Ok(NULL)

RECURSIVE _walk(_, _, _)
\* a walk that returns a null found at the end of the path whatever
\* allow_null is
_walk_value_any_null(value, tail, allow_null) ==
    IF value.k = "raise" THEN value
    ELSE IF value.v = NULL THEN Raise(NotFound)
    ELSE IF tail = <<>> THEN Ok(value.v)
    ELSE _walk(tail, value.v, allow_null)

\* Path._walk from the test of the evaluated value on: value is the outcome of
\* self._eval(head, data)
_walk_value(value, tail, allow_null) ==
    IF value.k = "raise" THEN value
    ELSE IF value.v = NULL THEN Raise(NotFound)
    ELSE IF tail = <<>>
    THEN IF ~allow_null /\ value.v = None THEN Raise(NotFound) ELSE Ok(value.v)
    ELSE _walk(tail, value.v, allow_null)

\* Path._walk
_walk(source, data, allow_null) ==
    _walk_value(_eval(_head(source)[1], data), _head(source)[2], allow_null)

\* Path(source, allow_null=...).find(data)
Path_find(source, data, allow_null) == _walk(source, data, allow_null)


\* jmespath.search for a dotted chain of identifiers: the value, or None when a
\* step finds nothing; a segment outside the identifier grammar is an error
RECURSIVE jmespath_search(_, _)
jmespath_search(src, data) ==
    IF \E i \in DOMAIN src : src[i] = "?" \/ src[i] \in DOMAIN IntOfText
    THEN Raise(JMESPathError)
    ELSE IF src = <<>> THEN Ok(data)
    ELSE IF data.t = "dict" /\ _unquote(Head(src)) \in DOMAIN data.m
    THEN jmespath_search(Tail(src), data.m[_unquote(Head(src))])
    ELSE Ok(None)

\* path._defatul_find
_defatul_find(src, data) == Path_find(src, data, FALSE)

\* path._jmespath_find
_jmespath_find(src, data) ==
    IF ~jmespath THEN Raise(AssertionError)
    ELSE LET value == jmespath_search(src, data)
         IN  IF value.k = "raise" THEN value
             ELSE IF value.v = None THEN Raise(NotFound)
             ELSE value

\* path._best_find
_best_find(src, data) ==
    IF jmespath THEN _jmespath_find(src, data) ELSE _defatul_find(src, data)

\* the keys of path.DIALECTS
DIALECTS == {None, PyStr("default"), PyStr("jmespath")}

\* a find that resolves with the unnamed dialect when the name is not one of
\* DIALECTS
find_any_dialect(source, data, dialect) ==
    IF dialect = PyStr("default") THEN _defatul_find(source, data)
    ELSE IF dialect = PyStr("jmespath") THEN _jmespath_find(source, data)
    ELSE _best_find(source, data)

\* path.find
find(source, data, dialect) ==
    IF dialect \notin DIALECTS THEN Raise(GenericError)
    ELSE IF dialect = None THEN _best_find(source, data)
    ELSE IF dialect = PyStr("default") THEN _defatul_find(source, data)
    ELSE _jmespath_find(source, data)

(***************************************************************************)
(* validators.py                                                           *)
(***************************************************************************)
\* message.format(limit=...) and msg.format(input_type=...): the text around the
\* placeholder of each template
FormatParts ==
    ("Ensure this field is less than or equal to {limit}." :>
        <<"Ensure this field is less than or equal to ", ".">>)
    @@ ("Ensure this field is greater than or equal to {limit}." :>
        <<"Ensure this field is greater than or equal to ", ".">>)
    @@ ("Ensure this value is less than or equal to {limit}." :>
        <<"Ensure this value is less than or equal to ", ".">>)
    @@ ("Ensure this value is greater than or equal to {limit}" :>
        <<"Ensure this value is greater than or equal to ", "">>)
    @@ ("Expected a list of items but got type '{input_type}'." :>
        <<"Expected a list of items but got type '", "'.">>)
    @@ ("Expected a dictionary of items but got type '{input_type}'" :>
        <<"Expected a dictionary of items but got type '", "'">>)
    @@ ("A valid date is required. Allowed formats: {formats}." :>
        <<"A valid date is required. Allowed formats: ", ".">>)

Format(message, param) ==
    IF message \in DOMAIN FormatParts
    THEN FormatParts[message][1] \o param \o FormatParts[message][2]
    ELSE message

\* the class-level message of each validator class
ValidatorMessage ==
    ("BaseValidator" :> "This value is invalid.")
    @@ ("MinValue" :> "Ensure this value is greater than or equal to {limit}")
    @@ ("MaxValue" :> "Ensure this value is less than or equal to {limit}.")

\* BaseValidator.__init__ (with MinValue.__init__, MaxValue.__init__);
\* message is NULL when the caller passes none
Validator(cls, limit, message) ==
    [cls |-> cls, limit |-> limit,
     message |-> IF message = NULL THEN ValidatorMessage[cls] ELSE message.s,
     field_name |-> None]

\* v >= limit and v <= limit for an int limit, with the interpreter's ordering
\* of unlike types (None below every number, every other type above)
PyGE(v, limit) ==
    IF v.t = "int" THEN v.n >= limit ELSE v.t # "none"

PyLE(v, limit) ==
    IF v.t = "int" THEN v.n <= limit ELSE v.t = "none"

\* the predicate attribute of each validator class
predicate(validator, v) ==
    CASE validator.cls = "MinValue" -> PyGE(v, validator.limit)
      [] validator.cls = "MaxValue" -> PyLE(v, validator.limit)
      [] OTHER -> TRUE

\* BaseValidator.validate
Validator_validate(validator, value) ==
    IF ~predicate(validator, value)
    THEN Raise(ValidationError(
            <<PyStr(Format(validator.message, TextOfInt[validator.limit]))>>,
            validator.field_name))
    ELSE Ok(value)

(***************************************************************************)
(* fields.py: classes, construction, binding                               *)
(***************************************************************************)
\* the field classes by their bases, most specific first; HookField is a user
\* subclass of Field that overrides validate() to return [value]
FieldMRO ==
    ("Field" :> <<"Field">>)
    @@ ("HookField" :> <<"HookField", "Field">>)
    @@ ("StringField" :> <<"StringField", "Field">>)
    @@ ("IntegerField" :> <<"IntegerField", "BaseNumberField", "Field">>)
    @@ ("ListField" :> <<"ListField", "Field">>)
    @@ ("DictField" :> <<"DictField", "Field">>)
    @@ ("BooleanField" :> <<"BooleanField", "Field">>)
    @@ ("DateField" :> <<"DateField", "BaseDateField", "Field">>)
    @@ ("DateTimeField" :> <<"DateTimeField", "BaseDateField", "Field">>)

\* a schema class (Schema or a subclass of it) declares no messages of its own
MROOf(cls) == IF cls \in DOMAIN FieldMRO THEN FieldMRO[cls] ELSE <<"Field">>

\* the default_error_messages attribute of each class
default_error_messages ==
    ("Field" :> (("required" :> "This field is required.")
                 @@ ("null" :> "This field may not be null.")
                 @@ ("blank" :> "This field may not be empty.")))
    @@ ("HookField" :> [k \in {} |-> ""])
    @@ ("StringField" :> (("invalid" :> "A valid string is required.")
                 @@ ("max_length" :> "Ensure this field has no more than {limit} characters.")
                 @@ ("min_length" :> "Ensure this field has at least {limit} characters.")))
    @@ ("BaseNumberField" :> (("invalid" :> "A valid number is required.")
                 @@ ("max_value" :> "Ensure this field is less than or equal to {limit}.")
                 @@ ("min_value" :> "Ensure this field is greater than or equal to {limit}.")
                 @@ ("max_string_length" :> "String value too large.")))
    @@ ("IntegerField" :> ("invalid" :> "A valid integer is required."))
    @@ ("ListField" :> (("invalid_type" :> "Expected a list of items but got type '{input_type}'.")
                 @@ ("blank" :> "This field may not be empty.")))
    @@ ("DictField" :> (("input_type" :> "Expected a dictionary of items but got type '{input_type}'")
                 @@ ("blank" :> "This field may not be empty.")))
    @@ ("BooleanField" :> [k \in {} |-> ""])
    @@ ("BaseDateField" :> (("invalid" :> "A valid date is required. Allowed formats: {formats}.")
                 @@ ("max_string_length" :> "String value too large.")))
    @@ ("DateField" :> ("datetime" :> "Expected a date but got a datetime."))
    @@ ("DateTimeField" :> ("date" :> "Expected a datetime but got a date."))

RECURSIVE MergeMessages(_, _)
\* messages.update(...) over reversed(__mro__): a more specific class overrides
MergeMessages(mro, i) ==
    IF i > Len(mro) THEN [k \in {} |-> ""]
    ELSE default_error_messages[mro[i]] @@ MergeMessages(mro, i + 1)

get_error_messages(cls) == MergeMessages(MROOf(cls), 1)

\* the class attribute default_blank_value, inherited from Field when not set
class_default_blank_value(cls) ==
    CASE cls = "StringField" -> PyType("str")
      [] cls = "ListField" -> PyType("list")
      [] cls = "DictField" -> PyType("dict")
      [] OTHER -> NULL

\* utils.ISO_8601
ISO_8601 == "iso-8601"

\* the keyword arguments of a constructor call, an omitted one at its default
\* (child: NULL when omitted; min_value, max_value: None when omitted;
\* formats: BaseDateField.default_formats when omitted)
DefaultKwargs ==
    [source |-> None, default |-> NULL, required |-> TRUE, null |-> FALSE,
     blank |-> FALSE, validators |-> <<>>, post_process |-> <<>>, dialect |-> None,
     child |-> NULL, min_value |-> None, max_value |-> None, trim_whitespace |-> TRUE,
     formats |-> <<ISO_8601>>, result_factory |-> NULL]

\* Schema.__init__: result_factory or self.result_factory, the class attribute
\* being NULL; None is the falsy argument of the model, NULL (an object()) and
\* a callable are truthy
Schema__init__(kw) == IF kw.result_factory = None THEN NULL ELSE kw.result_factory

\* the assertion of Field.__init__
InitAssertion(kw) == kw.required \/ kw.default # NULL

\* Field.bind; a field name used as a path source is a one-segment path
bind(field, field_name, parent) ==
    [field EXCEPT !.parent = parent,
                  !.field_name = PyStr(field_name),
                  !.source = IF field.source = None
                             THEN PyPath(IF field_name = "" THEN <<>> ELSE <<field_name>>)
                             ELSE field.source]

\* a reference to a parent object
Ref(cls) == [t |-> "ref", cls |-> cls]

\* a default_blank_value that is the class attribute whatever default is
\* configured
default_blank_value_of_class(cls, kw) == class_default_blank_value(cls)

\* the default_blank_value Field.__init__ leaves on the object: a configured
\* default replaces the blank default of a class that has one
default_blank_value(cls, kw) ==
    IF class_default_blank_value(cls) # NULL /\ kw.default # NULL
    THEN kw.default ELSE class_default_blank_value(cls)

\* Field.__init__ with Field.__new__ (which keeps the constructor arguments)
Field__init__(cls, kw) ==
    [cls |-> cls, _kwargs |-> kw,
     source |-> kw.source, default |-> kw.default, required |-> kw.required,
     null |-> kw.null, blank |-> kw.blank,
     validators |-> kw.validators, post_process |-> kw.post_process,
     dialect |-> kw.dialect,
     default_blank_value |-> default_blank_value(cls, kw),
     parent |-> None, field_name |-> None,
     trim_whitespace |-> kw.trim_whitespace, child |-> NULL, formats |-> kw.formats,
     result_factory |-> Schema__init__(kw)]

\* the validators BaseNumberField.__init__ appends for max_value and min_value
limit_validators(cls, kw) ==
    (IF kw.max_value # None
     THEN <<Validator("MaxValue", kw.max_value.n,
                      PyStr(get_error_messages(cls)["max_value"]))>>
     ELSE <<>>)
    \o (IF kw.min_value # None
        THEN <<Validator("MinValue", kw.min_value.n,
                         PyStr(get_error_messages(cls)["min_value"]))>>
        ELSE <<>>)

\* the class attribute child of ListField and DictField
class_child == Field__init__("Field", [DefaultKwargs EXCEPT !.null = TRUE, !.blank = TRUE])

\* the __init__ of StringField, BaseNumberField, ListField, DictField and Schema
\* after Field.__init__; an omitted child is copy.deepcopy(self.child)
New(cls, kw) ==
    [Field__init__(cls, kw) EXCEPT
        !.validators = IF cls = "IntegerField" THEN @ \o limit_validators(cls, kw) ELSE @,
        !.child = IF cls \in {"ListField", "DictField"}
                  THEN bind(IF kw.child # NULL THEN kw.child ELSE class_child, "", Ref(cls))
                  ELSE @]

RECURSIVE deepcopy(_)
\* Field.__deepcopy__: a new object from deep copies of the constructor arguments
deepcopy(field) ==
    New(field.cls,
        IF field._kwargs.child = NULL THEN field._kwargs
        ELSE [field._kwargs EXCEPT !.child = deepcopy(field._kwargs.child)])

(***************************************************************************)
(* fields.py and schema.py: the validation pipeline                        *)
(***************************************************************************)
\* one entry of the ghost log: what was called, on which field (its bound
\* name), with which callable or path, on which value
Ev(ev, field, x, arg) == [ev |-> ev, f |-> field.field_name, x |-> x, arg |-> arg]

\* an outcome with the log of the calls made to reach it
R(out, lg) == [out |-> out, log |-> lg]

\* the outcome r of a call made after the calls of lg
Logged(lg, r) == [out |-> r.out, log |-> lg \o r.log]

\* a callable supplied by the user (a post-process transform, a validate_<name>
\* method of a schema class), or a method inherited from Field
Callable(fn) == [fn |-> fn]

\* type(value).__name__
TypeName(value) ==
    CASE value.t = "none" -> "NoneType"
      [] OTHER -> value.t

\* len(value), for the values that have a length
HasLen(value) == value.t \in {"str", "list", "dict"}

PyLen(value) ==
    CASE value.t = "str" -> Len(Chars[value.s])
      [] value.t = "list" -> Len(value.l)
      [] value.t = "dict" -> Cardinality(DOMAIN value.m)

\* calling a zero-argument factory: str(), list(), dict()
CallType(ty) ==
    CASE ty.name = "str" -> PyStr("")
      [] ty.name = "list" -> PyList(<<>>)
      [] ty.name = "dict" -> PyDict(EmptyMap)

callable(v) == v.t = "type"

IsSchema(cls) == cls \in DOMAIN types

\* Field.is_null
is_null(field, value) == value = None

\* an is_blank that BooleanField does not override
is_blank_by_length(field, value) ==
    LET v == IF field.cls = "StringField" /\ field.trim_whitespace /\ value.t = "str"
             THEN PyStr(Strip[value.s]) ELSE value
    IN  HasLen(v) /\ PyLen(v) = 0

\* Field.is_blank, StringField.is_blank, and BooleanField.is_blank
is_blank(field, value) ==
    LET v == IF field.cls = "StringField" /\ field.trim_whitespace /\ value.t = "str"
             THEN PyStr(Strip[value.s]) ELSE value
    IN  field.cls # "BooleanField" /\ HasLen(v) /\ PyLen(v) = 0

\* Field.fail
fail(field, key, param) ==
    IF key \notin DOMAIN get_error_messages(field.cls)
    THEN Raise(AssertionError)
    ELSE Raise(ValidationError(
            <<PyStr(Format(get_error_messages(field.cls)[key], param))>>,
            field.field_name))

RECURSIVE find_candidates(_, _, _, _)
\* one turn of the loop of Field.find: value is the outcome of
\* find(source, data, self.dialect); NotFound moves on to the next source
find_candidate(field, data, srcs, i, value) ==
    IF value.k = "raise" /\ value.e = NotFound
    THEN Logged(<<Ev("find", field, srcs[i], data)>>,
                find_candidates(field, data, srcs, i + 1))
    ELSE R(value, <<Ev("find", field, srcs[i], data)>>)

\* the loop of Field.find over to_iterable(self.source); NULL when no source
\* finds a value
find_candidates(field, data, srcs, i) ==
    IF i > Len(srcs) THEN R(Ok(NULL), <<>>)
    ELSE find_candidate(field, data, srcs, i, find(srcs[i].segs, data, field.dialect))

\* Field.find, and Schema.find
Field_find(field, data) ==
    IF ~Truthy(field.source)
    THEN IF IsSchema(field.cls) THEN R(Ok(data), <<>>) ELSE R(Raise(AssertionError), <<>>)
    ELSE find_candidates(field, data, to_iterable(field.source), 1)

\* Field.validate_empty_values: Ok(<<is_empty, value>>) or the failure
validate_empty_values(field, value) ==
    IF value = NULL
    THEN IF field.required THEN fail(field, "required", "")
         ELSE Ok(<<TRUE, IF callable(field.default) THEN CallType(field.default)
                         ELSE field.default>>)
    ELSE IF is_null(field, value)
    THEN IF ~field.null THEN fail(field, "null", "") ELSE Ok(<<TRUE, None>>)
    ELSE IF is_blank(field, value)
    THEN IF ~field.blank THEN fail(field, "blank", "")
         ELSE LET blank == field.default_blank_value
              IN  Ok(<<TRUE, IF blank # NULL
                             THEN IF callable(blank) THEN CallType(blank) ELSE blank
                             ELSE value>>)
    ELSE Ok(<<FALSE, value>>)

RECURSIVE run_validators_all(_, _, _)
\* a loop over the validators that goes on after a failure and raises the
\* first failure once every validator has been called
run_validators_all(field, value, i) ==
    IF i > Len(field.validators) THEN R(Ok(value), <<>>)
    ELSE LET r == Validator_validate(field.validators[i], value)
             rest == run_validators_all(field, value, i + 1)
         IN  R(IF r.k = "raise" THEN r ELSE rest.out,
               <<Ev("validator", field, field.validators[i], value)>> \o rest.log)

RECURSIVE run_validators_from(_, _, _)
\* the loop of Field.run_validators: the first failure ends it
run_validators_from(field, value, i) ==
    IF i > Len(field.validators) THEN R(Ok(value), <<>>)
    ELSE IF Validator_validate(field.validators[i], value).k = "raise"
    THEN R(Validator_validate(field.validators[i], value),
           <<Ev("validator", field, field.validators[i], value)>>)
    ELSE Logged(<<Ev("validator", field, field.validators[i], value)>>,
                run_validators_from(field, value, i + 1))

\* Field.run_validators
run_validators(field, value) == run_validators_from(field, value, 1)

\* Field.validate, overridden by HookField
Field_validate(field, value) ==
    R(Ok(IF field.cls = "HookField" THEN PyList(<<value>>) ELSE value),
      <<Ev("validate", field, None, value)>>)

\* a user callable applied to a value
Apply(f, value) ==
    CASE f.fn = "Box" -> Ok(PyList(<<value>>))
      [] f.fn = "Wrap" -> Ok(PyDict("url" :> value))
      [] f.fn = "Reject" -> Raise(ValidationError(<<PyStr("Rejected.")>>, None))

RECURSIVE run_post_process_from(_, _, _)
\* the loop of Field.run_post_process: each transform gets the result of the
\* one before it
run_post_process_from(field, value, i) ==
    IF i > Len(field.post_process) THEN R(Ok(value), <<>>)
    ELSE IF Apply(field.post_process[i], value).k = "raise"
    THEN R(Apply(field.post_process[i], value),
           <<Ev("post_process", field, field.post_process[i], value)>>)
    ELSE Logged(<<Ev("post_process", field, field.post_process[i], value)>>,
                run_post_process_from(field, Apply(field.post_process[i], value).v, i + 1))

\* Field.run_post_process
run_post_process(field, value) == run_post_process_from(field, value, 1)

\* StringField.convert_to_type: str(value) of a non-text value, decoding, strip();
\* the text of a container is not spelled out
StringField_convert_to_type(field, value) ==
    LET text == CASE value.t = "str" -> value.s
                  [] value.t = "int" -> TextOfInt[value.n]
                  [] OTHER -> "<" \o value.t \o ">"
    IN  Ok(PyStr(IF text # "" /\ field.trim_whitespace /\ text \in DOMAIN Strip
                 THEN Strip[text] ELSE text))

\* BaseNumberField.convert_to_type with IntegerField.number_type
IntegerField_convert_to_type(field, value) ==
    CASE value.t = "int" -> Ok(value)
      [] value.t = "str" /\ Strip[value.s] \in DOMAIN IntOfText ->
            Ok(PyInt(IntOfText[Strip[value.s]]))
      [] OTHER -> fail(field, "invalid", "")

\* str.lower() of the texts of the model
Lower ==
    [s \in {"true", "t", "yes", "y", "1", "false", "f", "no", "n", "0", "a", "", " "}
        |-> s]
    @@ ("TRUE" :> "true") @@ ("T" :> "t") @@ ("Yes" :> "yes") @@ ("Y" :> "y")
    @@ ("False" :> "false") @@ ("F" :> "f") @@ ("NO" :> "no") @@ ("N" :> "n")
    @@ ("A" :> "a") @@ ("iso-8601" :> "iso-8601") @@ ("%Y-%m-%d" :> "%y-%m-%d")

\* utils.smart_bool; only text has lower()
smart_bool(v) ==
    IF v.t # "str" THEN PyBool(Truthy(v))
    ELSE IF Lower[v.s] \in {"true", "t", "yes", "y", "1"} THEN PyBool(TRUE)
    ELSE IF Lower[v.s] \in {"false", "f", "no", "n", "0"} THEN PyBool(FALSE)
    ELSE PyBool(Truthy(PyStr(Lower[v.s])))

\* BooleanField.convert_to_type
BooleanField_convert_to_type(field, value) ==
    IF field.null /\ value = None THEN Ok(value) ELSE Ok(smart_bool(value))

\* dateutil.parser.parse for the texts of the model: the datetime, or
\* ValueError for a text that is no date
dateutil_parse ==
    ("2015-03-13" :> Ok(PyDateTime("2015-03-13", "00:00:00")))
    @@ ("2015-03-13 12:00:00" :> Ok(PyDateTime("2015-03-13", "12:00:00")))
    @@ ("a" :> Raise([exc |-> "ValueError"]))

\* datetime.datetime.strptime for the texts and the format of the model
strptime(value, format) ==
    IF format = "%Y-%m-%d" /\ value = "2015-03-13"
    THEN Ok(PyDateTime("2015-03-13", "00:00:00"))
    ELSE Raise([exc |-> "ValueError"])

\* datetime.date(): the day of a datetime
date_of(parsed) ==
    IF parsed.k = "raise" THEN parsed ELSE Ok(PyDate(parsed.v.day))

\* BaseDateField.parse_date
BaseDateField_parse_date(value, format) ==
    IF Lower[format] = ISO_8601
    THEN IF ~parse_datetime THEN Raise(AssertionError) ELSE dateutil_parse[value]
    ELSE strptime(value, format)

\* a parse_date that keeps the datetime it parsed
parse_date_with_time(field, value, format) ==
    BaseDateField_parse_date(value, format)

\* DateField.parse_date, and the parse_date DateTimeField inherits
parse_date(field, value, format) ==
    IF field.cls = "DateField" THEN date_of(BaseDateField_parse_date(value, format))
    ELSE BaseDateField_parse_date(value, format)

\* repr() of the formats, joined with ', '
RECURSIVE formats_repr(_)
formats_repr(formats) ==
    IF formats = <<>> THEN ""
    ELSE "'" \o Head(formats) \o "'"
         \o (IF Tail(formats) = <<>> THEN "" ELSE ", " \o formats_repr(Tail(formats)))

RECURSIVE BaseDateField_formats(_, _, _)
\* one turn of the loop of BaseDateField.convert_to_type over self.formats:
\* parsed is the outcome of self.parse_date(value, format); ValueError and
\* TypeError move on to the next format
BaseDateField_format(field, value, i, parsed) ==
    IF parsed.k = "raise" /\ parsed.e = [exc |-> "ValueError"]
    THEN BaseDateField_formats(field, value, i + 1)
    ELSE parsed

\* the loop of BaseDateField.convert_to_type over self.formats, and the
\* failure after it
BaseDateField_formats(field, value, i) ==
    IF i > Len(field.formats) THEN fail(field, "invalid", formats_repr(field.formats))
    ELSE BaseDateField_format(field, value, i, parse_date(field, value, field.formats[i]))

\* BaseDateField.convert_to_type
BaseDateField_convert_to_type(field, value) ==
    IF value.t = "str" THEN BaseDateField_formats(field, Strip[value.s], 1)
    ELSE fail(field, "invalid", formats_repr(field.formats))

\* DateField.convert_to_type
DateField_convert_to_type(field, value) ==
    IF value.t = "datetime" THEN fail(field, "datetime", "")
    ELSE IF value.t = "date" THEN Ok(value)
    ELSE BaseDateField_convert_to_type(field, value)

\* DateTimeField.convert_to_type
DateTimeField_convert_to_type(field, value) ==
    IF value.t = "datetime" THEN Ok(value)
    ELSE IF value.t = "date" THEN fail(field, "date", "")
    ELSE BaseDateField_convert_to_type(field, value)

\* the methods every schema instance inherits from Field whose names start
\* with validate_
FieldValidateMethods == {"validate_empty_values"}

RECURSIVE class_getattr(_, _)
\* the lookup of a method in a schema class and then in its bases
class_getattr(cls, name) ==
    IF cls \notin DOMAIN types THEN NULL
    ELSE IF name \in DOMAIN types[cls].methods THEN types[cls].methods[name]
    ELSE LET found == {i \in DOMAIN types[cls].bases :
                          class_getattr(types[cls].bases[i], name) # NULL}
         IN  IF found = {} THEN NULL
             ELSE class_getattr(types[cls].bases[CHOOSE i \in found :
                                                    \A j \in found : i <= j], name)

\* getattr(self, 'validate_' + field.field_name, None)
getattr_validate(self, field_name) ==
    IF class_getattr(self.cls, "validate_" \o field_name) # NULL
    THEN class_getattr(self.cls, "validate_" \o field_name)
    ELSE IF ("validate_" \o field_name) \in FieldValidateMethods
    THEN Callable("Field.validate_" \o field_name)
    ELSE None

\* Schema.fields: the bound deep copies of the declared fields
fields(self) ==
    [name \in DOMAIN types[self.cls]._declared_fields |->
        bind(deepcopy(types[self.cls]._declared_fields[name]), name, Ref(self.cls))]

RECURSIVE run_validation(_, _), convert_to_type(_, _), ListField_items(_, _, _, _),
          Schema_fields_loop(_, _, _, _, _)

\* a comprehension that validates the items left after a failure before the
\* failure is raised
ListField_item_all(field, items, i, done, r) ==
    IF r.out.k = "raise"
    THEN R(r.out, r.log \o ListField_items(field, items, i + 1, done).log)
    ELSE Logged(r.log, ListField_items(field, items, i + 1, Append(done, r.out.v)))

\* one item of the comprehension of ListField.convert_to_type: r is the
\* outcome of self.child.run_validation(item); a failure ends the comprehension
ListField_item(field, items, i, done, r) ==
    IF r.out.k = "raise" THEN r
    ELSE Logged(r.log, ListField_items(field, items, i + 1, Append(done, r.out.v)))

\* the comprehension of ListField.convert_to_type and DictField.convert_to_type
ListField_items(field, items, i, done) ==
    IF i > Len(items) THEN R(Ok(PyList(done)), <<>>)
    ELSE ListField_item(field, items, i, done, run_validation(field.child, items[i]))

\* ListField.convert_to_type
ListField_convert_to_type(field, value) ==
    IF ~is_non_str_iterable(value)
    THEN R(fail(field, "invalid_type", TypeName(value)), <<>>)
    ELSE ListField_items(field,
                         IF value.t = "list" THEN value.l ELSE DictKeys(value.m),
                         1, <<>>)

\* the dict DictField.convert_to_type builds: r is the outcome of running the
\* child on value.values()
DictField_result(value, r) ==
    IF r.out.k = "raise" THEN r
    ELSE R(Ok(PyDict([k \in DOMAIN value.m |-> r.out.v.l[KeyIndex(value.m, k)]])), r.log)

\* DictField.convert_to_type
DictField_convert_to_type(field, value) ==
    IF value.t # "dict"
    THEN R(fail(field, "invalid_type", TypeName(value)), <<>>)
    ELSE DictField_result(value, ListField_items(field, DictValues(value.m), 1, <<>>))

\* a convert_to_type that returns the dict it assembled as it is
Schema_result_as_assembled(self, result) == R(Ok(PyDict(result)), <<>>)

\* the end of Schema.convert_to_type when no field failed: the dict of the
\* validated values, given to self.result_factory unless that is NULL
Schema_result(self, result) ==
    IF self.result_factory # NULL
    THEN R(Apply(self.result_factory, PyDict(result)),
           <<Ev("result_factory", self, self.result_factory, PyDict(result))>>)
    ELSE R(Ok(PyDict(result)), <<>>)

\* validate_method(validated_value) in Schema.convert_to_type, when the schema
\* has an attribute validate_<name>
call_validate_method(self, field_name, value) ==
    IF getattr_validate(self, field_name) = None THEN Ok(value)
    ELSE IF getattr_validate(self, field_name).fn # "Field.validate_empty_values"
    THEN Apply(getattr_validate(self, field_name), value)
    ELSE IF validate_empty_values(self, value).k = "raise"
    THEN validate_empty_values(self, value)
    ELSE Ok([t |-> "tuple",
             l |-> <<[t |-> "bool", b |-> validate_empty_values(self, value).v[1]],
                     validate_empty_values(self, value).v[2]>>])

\* the end of one turn of the loop of Schema.convert_to_type: validated is the
\* outcome of the try block; a ValidationError is collected under the field's
\* name, any other exception leaves the loop
Schema_field_done(self, value, names, result, errors, field, validated) ==
    IF validated.k = "ok"
    THEN Schema_fields_loop(self, value, Tail(names),
                            (field.field_name.s :> validated.v) @@ result, errors)
    ELSE IF validated.e.exc = "ValidationError"
    THEN Schema_fields_loop(self, value, Tail(names), result,
                            Append(errors, ValidationError(validated.e.messages,
                                                           field.field_name)))
    ELSE R(validated, <<>>)

\* the try block of the loop: run is the outcome of
\* field.run_validation(raw_value)
Schema_field_run(self, value, names, result, errors, field, run) ==
    Logged(run.log,
           Schema_field_done(self, value, names, result, errors, field,
               IF run.out.k = "raise" THEN run.out
               ELSE call_validate_method(self, field.field_name.s, run.out.v)))

\* one turn of the loop from the try block on: raw_value is the outcome of
\* field.find(value), which is outside the try block
Schema_field_found(self, value, names, result, errors, field, raw_value) ==
    IF raw_value.out.k = "raise" THEN raw_value
    ELSE Logged(raw_value.log,
                Schema_field_run(self, value, names, result, errors, field,
                                 run_validation(field, raw_value.out.v)))

\* one turn of the loop of Schema.convert_to_type
Schema_field(self, value, names, result, errors, field) ==
    Schema_field_found(self, value, names, result, errors, field,
                       Field_find(field, value))

\* the loop of Schema.convert_to_type over self.fields.items(), the names taken
\* in the order the dict lists them, and the statements after the loop
Schema_fields_loop(self, value, names, result, errors) ==
    IF names # <<>>
    THEN Schema_field(self, value, names, result, errors, fields(self)[Head(names)])
    ELSE IF errors # <<>>
    THEN R(Raise(ValidationError(errors, self.field_name)), <<>>)
    ELSE Schema_result(self, result)

\* Schema.convert_to_type
Schema_convert_to_type(self, value) ==
    Schema_fields_loop(self, value,
                       SelectSeq(order, LAMBDA n : n \in DOMAIN fields(self)),
                       EmptyMap, <<>>)

\* Field.convert_to_type and its overrides in StringField, BaseNumberField,
\* ListField, DictField and Schema
convert_to_type(field, value) ==
    Logged(<<Ev("convert_to_type", field, None, value)>>,
           CASE field.cls = "StringField" ->
                    R(StringField_convert_to_type(field, value), <<>>)
             [] field.cls = "IntegerField" ->
                    R(IntegerField_convert_to_type(field, value), <<>>)
             [] field.cls = "BooleanField" ->
                    R(BooleanField_convert_to_type(field, value), <<>>)
             [] field.cls = "DateField" ->
                    R(DateField_convert_to_type(field, value), <<>>)
             [] field.cls = "DateTimeField" ->
                    R(DateTimeField_convert_to_type(field, value), <<>>)
             [] field.cls = "ListField" -> ListField_convert_to_type(field, value)
             [] field.cls = "DictField" -> DictField_convert_to_type(field, value)
             [] IsSchema(field.cls) -> Schema_convert_to_type(field, value)
             [] OTHER -> R(Ok(value), <<>>))

\* Field.run_validation from self.run_post_process on: validated is the
\* outcome of self.validate(value)
run_validation_validated(field, validated) ==
    IF validated.out.k = "raise" THEN validated
    ELSE Logged(validated.log, run_post_process(field, validated.out.v))

\* Field.run_validation from self.validate on: checked is the outcome of
\* self.run_validators(value), whose return value is not used
run_validation_checked(field, value, checked) ==
    IF checked.out.k = "raise" THEN checked
    ELSE Logged(checked.log, run_validation_validated(field, Field_validate(field, value)))

\* Field.run_validation from self.run_validators on: converted is the outcome
\* of self.convert_to_type(value)
run_validation_converted(field, converted) ==
    IF converted.out.k = "raise" THEN converted
    ELSE Logged(converted.log,
                run_validation_checked(field, converted.out.v,
                                       run_validators(field, converted.out.v)))

\* Field.run_validation from the test of is_empty on: empty is the outcome of
\* self.validate_empty_values(value)
run_validation_empty(field, value, empty) ==
    IF empty.k = "raise" THEN R(empty, <<>>)
    ELSE IF empty.v[1] THEN R(Ok(empty.v[2]), <<>>)
    ELSE run_validation_converted(field, convert_to_type(field, value))

\* Field.run_validation
run_validation(field, value) ==
    run_validation_empty(field, value, validate_empty_values(field, value))

\* Field.parse from self.run_validation on: value is the outcome of
\* self.find(data)
parse_found(field, value) ==
    IF value.out.k = "raise" THEN value
    ELSE Logged(value.log, run_validation(field, value.out.v))

\* Field.parse
parse(field, data) == parse_found(field, Field_find(field, data))

(***************************************************************************)
(* schema.py: the declared fields of a schema class                        *)
(***************************************************************************)
\* the names a schema class may give its fields
Names == {"x", "y"}

\* list(d.items()) for a dict keyed by field names
ItemsOf(d) ==
    LET names == SelectSeq(order, LAMBDA n : n \in DOMAIN d)
    IN  [i \in DOMAIN names |-> <<names[i], d[names[i]]>>]

RECURSIVE dict_of(_)
\* dict(pairs): a later pair replaces an earlier one of the same key
dict_of(pairs) ==
    IF pairs = <<>> THEN EmptyMap
    ELSE LET last == pairs[Len(pairs)]
         IN  (last[1] :> last[2]) @@ dict_of(SubSeq(pairs, 1, Len(pairs) - 1))

RECURSIVE append_bases(_, _, _)
\* a loop over the bases that puts the items of a base after the pairs so far,
\* so that a base replaces a field the class declares itself
append_bases(bases, i, pairs) ==
    IF i = 0 THEN pairs
    ELSE append_bases(bases, i - 1,
            IF bases[i] \in DOMAIN types
            THEN pairs \o ItemsOf(types[bases[i]]._declared_fields)
            ELSE pairs)

RECURSIVE prepend_bases(_, _, _)
\* the loop of _get_declared_fields over reversed(bases), i counting down
prepend_bases(bases, i, pairs) ==
    IF i = 0 THEN pairs
    ELSE prepend_bases(bases, i - 1,
            IF bases[i] \in DOMAIN types
            THEN ItemsOf(types[bases[i]]._declared_fields) \o pairs
            ELSE pairs)

\* SchemaMetaClass._get_declared_fields; attrs holds the Field attributes of the
\* class body
_get_declared_fields(bases, attrs) ==
    dict_of(prepend_bases(bases, Len(bases), ItemsOf(attrs)))

\* SchemaMetaClass.__new__: the class object
SchemaMetaClass__new__(bases, attrs, methods) ==
    [bases |-> bases, attrs |-> attrs, methods |-> methods,
     _declared_fields |-> _get_declared_fields(bases, attrs)]

(***************************************************************************)
(* exceptions.py: ValidationError.flatten_messages                         *)
(***************************************************************************)
\* a dict of one entry; its key may be None
PyDict1(key, val) == [t |-> "dict", key |-> key, val |-> val]

RECURSIVE walk(_)
\* the inner function of flatten_messages
walk(e) ==
    IF "t" \in DOMAIN e THEN e
    ELSE PyDict1(e.field_name, PyList([i \in DOMAIN e.messages |-> walk(e.messages[i])]))

\* a flattened view that keeps the node of the failure itself
flatten_messages_from_root(self) == walk(self)

\* ValidationError.flatten_messages
flatten_messages(self) ==
    LET messages == walk(self)
    IN  IF self.field_name = None THEN messages.val ELSE messages

(***************************************************************************)
(* The inputs: documents, path expressions, field configurations           *)
(***************************************************************************)
\* the longest path expression, in segments
MaxPathLen == 2

Segs == {"x", "y", "1", "0", "?", "\"1\""}

Paths == UNION {[1..n -> Segs] : n \in 1..MaxPathLen}

Leaves == {None, PyInt(1), PyStr("a"), PyList(<<>>), PyList(<<PyInt(1), PyInt(2)>>)}

InnerDicts ==
    {PyDict(m) : m \in [{"y"} -> Leaves] \cup [{"1"} -> Leaves] \cup [{"y", "1"} -> Leaves]}

\* the document of test_default_path
TestPathDoc ==
    PyDict("x" :> PyDict(("y" :> PyList(<<PyInt(1), PyInt(2)>>))
                         @@ ("1" :> PyList(<<PyInt(3), PyInt(4)>>))
                         @@ ("?" :> PyStr("a"))))

PathDocs ==
    {PyDict("x" :> v) : v \in Leaves \cup InnerDicts}
    \cup Leaves \cup {PyDict(EmptyMap), TestPathDoc}

Dialects == {None, PyStr("default"), PyStr("jmespath"), PyStr("dummy")}

FieldLeaves ==
    {None, PyInt(0), PyInt(1), PyInt(2), PyStr(""), PyStr(" "), PyStr("a"), PyStr("1"),
     PyStr("2"),
     PyList(<<>>), PyList(<<PyInt(1)>>), PyDict(EmptyMap), PyDict("z" :> PyInt(1))}

FieldDocs ==
    {PyDict("x" :> PyDict("y" :> v)) : v \in FieldLeaves}
    \cup {PyDict("x" :> v) : v \in {None, PyInt(1), PyDict(EmptyMap), PyDict("z" :> PyInt(1))}}
    \cup {PyDict(EmptyMap), PyDict("y" :> PyInt(1)),
          PyDict(("x" :> PyDict("y" :> None)) @@ ("y" :> PyInt(2))),
          PyDict(("x" :> PyInt(1)) @@ ("y" :> PyInt(2)))}

SrcXY == PyPath(<<"x", "y">>)

Box == Callable("Box")

Wrap == Callable("Wrap")

MinValue(limit) == Validator("MinValue", limit, NULL)

MaxValue(limit) == Validator("MaxValue", limit, NULL)

\* the longest list of validators, and of post-process transforms, of a field
MaxChain == 2

ValidatorLists == UNION {[1..n -> {MinValue(1), MaxValue(1)}] : n \in 0..MaxChain}

PostProcessLists == UNION {[1..n -> {Box, Wrap}] : n \in 0..MaxChain}

\* fields that differ in how they treat a missing, a null and a blank value
EmptyValueFields ==
    {New(cls, [DefaultKwargs EXCEPT !.source = SrcXY, !.default = d, !.required = r,
                                    !.null = n, !.blank = b, !.dialect = dia,
                                    !.validators = <<MaxValue(0)>>,
                                    !.post_process = <<Box>>]) :
        cls \in {"Field", "StringField", "IntegerField", "ListField", "DictField"},
        d \in {NULL, PyStr("a"), PyType("dict")},
        r \in BOOLEAN, n \in BOOLEAN, b \in BOOLEAN,
        dia \in {None, PyStr("default")}}

\* fields that differ in their validators and post-process transforms
PipelineFields ==
    {New(cls, [DefaultKwargs EXCEPT !.source = SrcXY, !.dialect = PyStr("default"),
                                    !.validators = vs, !.post_process = ps,
                                    !.min_value = mv]) :
        cls \in {"Field", "HookField", "IntegerField", "StringField"},
        vs \in ValidatorLists, ps \in PostProcessLists, mv \in {None, PyInt(1)}}

CandidatePaths == {<<"x", "y">>, <<"x", "z">>, <<"x">>, <<"y">>}

CandidateSources ==
    {PyPath(p) : p \in CandidatePaths}
    \cup {PyList(<<PyPath(p), PyPath(q)>>) : p, q \in CandidatePaths}
    \cup {None, PyList(<<>>)}

\* fields that differ in their candidate path expressions and dialect
CandidateFields ==
    {New("Field", [DefaultKwargs EXCEPT !.source = s, !.dialect = dia, !.required = r,
                                        !.default = PyInt(0)]) :
        s \in CandidateSources, dia \in Dialects, r \in BOOLEAN}

StandaloneFields ==
    {f \in EmptyValueFields \cup PipelineFields \cup CandidateFields : InitAssertion(f._kwargs)}

\* the class Schema itself: no bases of interest, no declared field
RootTypes == "Schema" :> SchemaMetaClass__new__(<<>>, EmptyMap, EmptyMap)

\* the field prototypes a class body may assign to a name
Prototypes ==
    ("x" :> {New("Field", DefaultKwargs),
             New("IntegerField", [DefaultKwargs EXCEPT !.min_value = PyInt(1)])})
    @@ ("y" :> {New("Field", DefaultKwargs),
                New("Field", [DefaultKwargs EXCEPT !.required = FALSE, !.default = PyInt(0)])})

\* the names of the schema classes, in the order they are defined
TypeNames == <<"Foo", "Bar">>

\* an instance of a schema class used as a field prototype: Foo()
SchemaInstance(cls) == New(cls, DefaultKwargs)

\* the class bodies of the next class: its Field attributes; x may hold an
\* instance of a schema class defined before
ClassBodies ==
    UNION {[S -> UNION {Prototypes[n] : n \in S}
                 \cup {SchemaInstance(T) : T \in DOMAIN types \ {"Schema"}}] :
           S \in SUBSET Names}

\* in a class body of the model each name holds one of its own prototypes
ClassBody(attrs) ==
    \A n \in DOMAIN attrs :
        attrs[n] \in Prototypes[n] \/ (n = "x" /\ IsSchema(attrs[n].cls))

SchemaDocs ==
    {PyDict(EmptyMap), PyInt(1),
     PyDict("x" :> PyInt(1)), PyDict("y" :> PyInt(1)),
     PyDict(("x" :> PyInt(1)) @@ ("y" :> PyInt(2))),
     PyDict(("x" :> PyInt(0)) @@ ("y" :> PyInt(2))),
     PyDict(("x" :> PyStr("a")) @@ ("y" :> None)),
     PyDict("x" :> PyDict("y" :> PyInt(1))),
     PyDict("x" :> PyDict("x" :> PyStr("1"))),
     PyDict("x" :> PyDict("z" :> PyInt(1))),
     PyDict(("x" :> PyDict("z" :> PyInt(1))) @@ ("y" :> PyInt(1)))}

Orders == {<<"x", "y">>, <<"y", "x">>}

(***************************************************************************)
(* The operations                                                          *)
(***************************************************************************)
NoCall == [op |-> "init"]

InitEnv ==
    /\ jmespath \in BOOLEAN
    /\ parse_datetime = TRUE
    /\ call = NoCall
    /\ ret = NULL
    /\ log = <<>>
    /\ heap = <<>>
    /\ threads = <<>>

\* Path(source, allow_null=allow_null).find(doc)
PathFind ==
    /\ call = NoCall
    /\ \E source \in Paths, allow_null \in BOOLEAN :
           /\ call' = [op |-> "Path.find", source |-> source, allow_null |-> allow_null]
           /\ ret' = Path_find(source, doc, allow_null)
           /\ log' = <<>>
    /\ UNCHANGED <<doc, jmespath, parse_datetime, order, types, heap, threads>>

\* path.find(source, doc, dialect)
FindDialect ==
    /\ call = NoCall
    /\ \E source \in Paths, dialect \in Dialects :
           /\ call' = [op |-> "find", source |-> source, dialect |-> dialect]
           /\ ret' = find(source, doc, dialect)
           /\ log' = <<>>
    /\ UNCHANGED <<doc, jmespath, parse_datetime, order, types, heap, threads>>

\* field.parse(doc) for a field used on its own
FieldParse ==
    /\ call = NoCall
    /\ \E field \in StandaloneFields :
           \E r \in {parse(field, doc)} :
               /\ call' = [op |-> "Field.parse", field |-> field]
               /\ ret' = r.out
               /\ log' = r.log
    /\ UNCHANGED <<doc, jmespath, parse_datetime, order, types, heap, threads>>

\* class <name>(<bases>): <attrs>, the next class of TypeNames
DefineSchema ==
    /\ call.op \in {"init", "class"}
    /\ \E i \in DOMAIN TypeNames, base \in DOMAIN types, attrs \in ClassBodies :
           /\ ClassBody(attrs)
           /\ TypeNames[i] \notin DOMAIN types
           /\ \A j \in 1..(i - 1) : TypeNames[j] \in DOMAIN types
           /\ types' = (TypeNames[i] :> SchemaMetaClass__new__(<<base>>, attrs, EmptyMap))
                        @@ types
           /\ call' = [op |-> "class", name |-> TypeNames[i]]
    /\ ret' = NULL
    /\ log' = <<>>
    /\ UNCHANGED <<doc, jmespath, parse_datetime, order, heap, threads>>

\* T().parse(doc) for the schema class T just defined
SchemaParse ==
    /\ call.op = "class"
    /\ \E r \in {parse(SchemaInstance(call.name), doc)} :
           /\ call' = [op |-> "Schema.parse", cls |-> call.name]
           /\ ret' = r.out
           /\ log' = r.log
    /\ UNCHANGED <<doc, jmespath, parse_datetime, order, types, heap, threads>>

\* e.flatten_messages for the ValidationError e that T().parse(doc) raised
FlattenMessages ==
    /\ call.op = "Schema.parse"
    /\ ret.k = "raise"
    /\ ret.e.exc = "ValidationError"
    /\ call' = [op |-> "flatten_messages", cls |-> call.cls, e |-> ret.e]
    /\ ret' = Ok(flatten_messages(ret.e))
    /\ UNCHANGED <<doc, jmespath, parse_datetime, order, types, log, heap, threads>>

InitPath ==
    /\ doc \in PathDocs
    /\ order = <<"x", "y">>
    /\ types = RootTypes
    /\ InitEnv

NextPath == PathFind \/ FindDialect

SpecPath == InitPath /\ [][NextPath]_vars

InitField ==
    /\ doc \in FieldDocs
    /\ order = <<"x", "y">>
    /\ types = RootTypes
    /\ InitEnv

NextField == FieldParse

SpecField == InitField /\ [][NextField]_vars

Init ==
    /\ doc \in SchemaDocs
    /\ order \in Orders
    /\ types = RootTypes
    /\ InitEnv

Next == DefineSchema \/ SchemaParse \/ FlattenMessages

Spec == Init /\ [][Next]_vars

(***************************************************************************)
(* Properties of path resolution (SpecPath)                                *)
(***************************************************************************)
\* what one token of a path expression selects in a value, NULL when the
\* value has no such step: a key of a mapping, an index of a sequence, and for
\* ? the first entry of a mapping
StepOf(seg, value) ==
    IF seg = "?"
    THEN IF value.t = "dict" /\ value.m # EmptyMap THEN value.m[FirstKey(value.m)] ELSE NULL
    ELSE IF seg \in DOMAIN IntOfText
    THEN IF value.t = "list" /\ IntOfText[seg] < Len(value.l)
         THEN value.l[IntOfText[seg] + 1]
         ELSE IF value.t = "str" /\ IntOfText[seg] < Len(Chars[value.s])
         THEN PyStr(Chars[value.s][IntOfText[seg] + 1])
         ELSE NULL
    ELSE IF value.t = "dict" /\ _unquote(seg) \in DOMAIN value.m
    THEN value.m[_unquote(seg)]
    ELSE NULL

RECURSIVE Reached(_, _)
\* the value reached by walking all tokens, NULL when a step does not exist
Reached(source, value) ==
    IF source = <<>> THEN value
    ELSE IF StepOf(Head(source), value) = NULL THEN NULL
    ELSE Reached(Tail(source), StepOf(Head(source), value))

\* C3: under the default dialect find returns the value reached by walking all
\* tokens when every step exists, and otherwise fails with NotFound and with no
\* other kind of failure, also when an intermediate value is a scalar or null
C3_FindReachedOrNotFound ==
    (call.op = "find" /\ call.dialect = PyStr("default")) =>
        ret = IF Reached(call.source, doc) \in {NULL, None}
              THEN Raise(NotFound)
              ELSE Ok(Reached(call.source, doc))

\* a find whose path has a key token left at a scalar fails with AttributeError
C3_ScalarIntermediate ==
    /\ call.op = "find" /\ call.dialect = PyStr("default")
    /\ call.source = <<"x", "y">>
    /\ doc = PyDict("x" :> PyInt(1))
    /\ ret = Raise(AttributeError)

\* the call resolved the two-segment path x.<seg> in a document whose x is
\* a mapping or sequence-like
LastSegmentOn(types_of_x) ==
    /\ call.op = "Path.find"
    /\ Len(call.source) = 2
    /\ call.source[1] = "x"
    /\ doc.t = "dict"
    /\ "x" \in DOMAIN doc.m
    /\ doc.m["x"].t \in types_of_x

\* what a found value gives at the end of a path
AtEnd(value) ==
    IF value = None /\ ~call.allow_null THEN Raise(NotFound) ELSE Ok(value)

\* C14: a quoted segment is looked up as a literal key and never as an index:
\* in a sequence-like container it finds nothing, in a mapping it finds the
\* entry of that key; an unquoted segment that parses as an integer is an
\* index only: in a sequence it selects by position, in a mapping it finds
\* nothing even when the mapping has that key
C14_QuotedKeyUnquotedIndex ==
    /\ (LastSegmentOn({"list", "str"}) /\ call.source[2] \in DOMAIN QuotedBody) =>
           ret = Raise(NotFound)
    /\ (LastSegmentOn({"dict"}) /\ call.source[2] \in DOMAIN QuotedBody) =>
           ret = IF QuotedBody[call.source[2]] \in DOMAIN doc.m["x"].m
                 THEN AtEnd(doc.m["x"].m[QuotedBody[call.source[2]]])
                 ELSE Raise(NotFound)
    /\ (LastSegmentOn({"dict"}) /\ call.source[2] \in DOMAIN IntOfText) =>
           ret = Raise(NotFound)
    /\ (LastSegmentOn({"list"}) /\ call.source[2] \in DOMAIN IntOfText) =>
           ret = IF IntOfText[call.source[2]] < Len(doc.m["x"].l)
                 THEN AtEnd(doc.m["x"].l[IntOfText[call.source[2]] + 1])
                 ELSE Raise(NotFound)

\* x.1 finds nothing in a mapping that has the key 1, which x."1" finds
C14_IndexTokenOnMapping ==
    /\ LastSegmentOn({"dict"})
    /\ call.source[2] = "1"
    /\ "1" \in DOMAIN doc.m["x"].m
    /\ doc.m["x"].m["1"] = PyInt(1)
    /\ ret = Raise(NotFound)
    /\ Path_find(<<"x", "\"1\"">>, doc, FALSE) = Ok(PyInt(1))

(***************************************************************************)
(* Properties of a field used on its own (SpecField)                       *)
(***************************************************************************)
\* the field's dialect can be used: a known one whose library is there
UsableDialect(field) ==
    \/ field.dialect \in {None, PyStr("default")}
    \/ field.dialect = PyStr("jmespath") /\ jmespath

\* the field has one path expression
OnePath(field) == field.source # None /\ "segs" \in DOMAIN field.source

\* the failure a field used on its own raises for a key of Field's catalog
Failure(key) ==
    Raise(ValidationError(<<PyStr(default_error_messages["Field"][key])>>, None))

\* the configured default, the result of calling it when it is callable
DefaultOf(field) ==
    IF field.default.t = "type" THEN CallType(field.default) ELSE field.default

\* the outcome of a missing value
MissingOutcome(field) ==
    IF field.required THEN Failure("required") ELSE Ok(DefaultOf(field))

\* the calls of the log other than the path lookups
PipelineCalls == SelectSeq(log, LAMBDA e : e.ev # "find")

\* the path lookups of the log
FindCalls == SelectSeq(log, LAMBDA e : e.ev = "find")

\* C2: a field whose path resolves to nothing fails with the required message
\* when it is required, and otherwise returns the configured default (called
\* when callable) with no coercion, validator, hook or post-process applied
C2_MissingRequiredOrDefault ==
    (/\ call.op = "Field.parse"
     /\ OnePath(call.field)
     /\ UsableDialect(call.field)
     /\ Reached(call.field.source.segs, doc) = NULL) =>
        /\ ret = MissingOutcome(call.field)
        /\ PipelineCalls = <<>>

\* a required field with path x.y parsed from {x: 1} under the default dialect
\* ends in AttributeError
C2_ScalarParent ==
    /\ call.op = "Field.parse"
    /\ call.field.source = SrcXY
    /\ call.field.dialect = PyStr("default")
    /\ call.field.required
    /\ doc = PyDict("x" :> PyInt(1))
    /\ Reached(SrcXY.segs, doc) = NULL
    /\ ret = Raise(AttributeError)

\* the value the field finds in the document
Found == Field_find(call.field, doc).out

\* the field finds a value that is neither missing, null nor blank
FoundPresent ==
    /\ Found.k = "ok"
    /\ Found.v \notin {NULL, None}
    /\ ~is_blank(call.field, Found.v)

\* the validators of a field that reject a value
Rejecting(field, value) ==
    {i \in DOMAIN field.validators : ~predicate(field.validators[i], value)}

\* how many validators are invoked on a value: all, or up to the first that
\* rejects it
Invoked(field, value) ==
    IF Rejecting(field, value) = {} THEN Len(field.validators)
    ELSE CHOOSE i \in Rejecting(field, value) : \A j \in Rejecting(field, value) : i <= j

\* what the refinement hook makes of a value
Hooked(field, value) == IF field.cls = "HookField" THEN PyList(<<value>>) ELSE value

RECURSIVE Transformed(_, _, _)
\* the output of the first j post-process transforms on a value
Transformed(field, value, j) ==
    IF j = 0 THEN value
    ELSE Apply(field.post_process[j], Transformed(field, value, j - 1)).v

\* the calls made on a coerced value, in their order, and the outcome
OrderedPipeline(field, calls, coerced) ==
    /\ \A i \in 1..Invoked(field, coerced) :
          calls[1 + i] = Ev("validator", field, field.validators[i], coerced)
    /\ IF Rejecting(field, coerced) # {}
       THEN /\ Len(calls) = 1 + Invoked(field, coerced)
            /\ ret = Validator_validate(field.validators[Invoked(field, coerced)], coerced)
            /\ ret.k = "raise"
       ELSE /\ Len(calls) = 2 + Len(field.validators) + Len(field.post_process)
            /\ calls[2 + Len(field.validators)] = Ev("validate", field, None, coerced)
            /\ \A j \in DOMAIN field.post_process :
                  calls[2 + Len(field.validators) + j] =
                      Ev("post_process", field, field.post_process[j],
                         Transformed(field, Hooked(field, coerced), j - 1))
            /\ ret = Ok(Transformed(field, Hooked(field, coerced), Len(field.post_process)))

\* C4: for a present value the pipeline is coercion, then each validator in
\* list order on the coerced value, then the refinement hook, then each
\* post-process transform in list order on the output of the one before; the
\* first validator that fails ends the run with its failure
C4_PipelineOrder ==
    (/\ call.op = "Field.parse"
     /\ call.field.cls \in {"Field", "HookField", "IntegerField", "StringField"}
     /\ FoundPresent) =>
        /\ PipelineCalls # <<>>
        /\ PipelineCalls[1] = Ev("convert_to_type", call.field, None, Found.v)
        /\ IF convert_to_type(call.field, Found.v).out.k = "raise"
           THEN Len(PipelineCalls) = 1 /\ ret = convert_to_type(call.field, Found.v).out
           ELSE OrderedPipeline(call.field, PipelineCalls,
                                convert_to_type(call.field, Found.v).out.v)

\* a text coerced to an integer passes one validator, is rejected by the
\* second, and neither the hook nor a transform runs
C4_SecondValidatorFails ==
    /\ call.op = "Field.parse"
    /\ call.field.cls = "IntegerField"
    /\ Len(call.field.validators) = 3
    /\ SubSeq(call.field.validators, 1, 2) = <<MinValue(1), MaxValue(1)>>
    /\ call.field.post_process = <<Box, Wrap>>
    /\ FoundPresent
    /\ Found.v = PyStr("2")
    /\ Len(PipelineCalls) = 3
    /\ ret.k = "raise"

\* a value passes the validators, the hook boxes it and two transforms run in
\* list order
C4_TransformsChained ==
    /\ call.op = "Field.parse"
    /\ call.field.cls = "HookField"
    /\ call.field.validators = <<MinValue(1), MaxValue(1)>>
    /\ call.field.post_process = <<Wrap, Box>>
    /\ FoundPresent
    /\ Found.v = PyInt(1)
    /\ ret = Ok(PyList(<<PyDict("url" :> PyList(<<PyInt(1)>>))>>))

RECURSIVE Without(_, _)
\* the document with the entry at a path of keys removed
Without(path, value) ==
    IF Len(path) = 1
    THEN PyDict([k \in DOMAIN value.m \ {path[1]} |-> value.m[k]])
    ELSE PyDict([value.m EXCEPT ![path[1]] = Without(Tail(path), value.m[path[1]])])

\* the document holds an explicit null at a path of keys
NullAt(path, value) ==
    /\ path # <<>>
    /\ Reached(SubSeq(path, 1, Len(path) - 1), value).t = "dict"
    /\ path[Len(path)] \in DOMAIN Reached(SubSeq(path, 1, Len(path) - 1), value).m
    /\ Reached(path, value) = None

\* C7: an explicit null at the field's path gives the same outcome as the
\* document without that entry, the required failure or the default, whatever
\* the null flag is; Path.find returns the null only with allow_null
C7_NullAsMissing ==
    (/\ call.op = "Field.parse"
     /\ OnePath(call.field)
     /\ UsableDialect(call.field)
     /\ NullAt(call.field.source.segs, doc)) =>
        /\ ret = parse(call.field, Without(call.field.source.segs, doc)).out
        /\ ret = MissingOutcome(call.field)
        /\ Path_find(call.field.source.segs, doc, TRUE) = Ok(None)
        /\ Path_find(call.field.source.segs, doc, FALSE) = Raise(NotFound)

\* a field that allows null and is not required returns its default for an
\* explicit null
C7_NullAllowedGivesDefault ==
    /\ call.op = "Field.parse"
    /\ call.field.source = SrcXY
    /\ call.field.null
    /\ ~call.field.required
    /\ NullAt(SrcXY.segs, doc)
    /\ ret = Ok(DefaultOf(call.field))

\* the field finds a present, non-null value that its emptiness test deems blank
FoundBlank ==
    /\ call.op = "Field.parse"
    /\ Found.k = "ok"
    /\ Found.v \notin {NULL, None}
    /\ is_blank(call.field, Found.v)

\* the blank default of the field's kind: str(), list(), dict()
KindBlank(field) == CallType(class_default_blank_value(field.cls))

\* C8 as stated: a blank value fails with the blank message when blanks are
\* disallowed; when they are allowed the result is the kind's own blank default
\* for every configuration of the other options, and nothing else runs
C8_BlankKindDefault ==
    FoundBlank =>
        /\ ~call.field.blank => ret = Failure("blank")
        /\ (call.field.blank /\ class_default_blank_value(call.field.cls) # NULL) =>
              ret = Ok(KindBlank(call.field))
        /\ PipelineCalls = <<>>

\* C8: a blank value fails with the blank message when blanks are disallowed;
\* when they are allowed the result is the configured default (called when
\* callable) for a kind that has a blank default and a field that has a
\* default, the kind's blank default for such a kind without a default, and
\* the value itself for a kind without a blank default; nothing else runs
C8_BlankConfiguredDefault ==
    FoundBlank =>
        /\ ret = IF ~call.field.blank THEN Failure("blank")
                 ELSE IF class_default_blank_value(call.field.cls) = NULL THEN Ok(Found.v)
                 ELSE IF call.field.default # NULL THEN Ok(DefaultOf(call.field))
                 ELSE Ok(KindBlank(call.field))
        /\ PipelineCalls = <<>>

\* a text field with a default that allows blanks returns the default for a
\* blank text
C8_DefaultForBlankText ==
    /\ FoundBlank
    /\ call.field.cls = "StringField"
    /\ call.field.blank
    /\ call.field.default = PyStr("a")
    /\ Found.v = PyStr(" ")
    /\ ret = Ok(PyStr("a"))

\* the candidate path expressions of a field
Candidates(field) == to_iterable(field.source)

\* a path expression resolves to a value
Resolves(source) == Reached(source.segs, doc) \notin {NULL, None}

\* the place of the first candidate that resolves, if there is one
FirstResolving(srcs) ==
    {i \in DOMAIN srcs : Resolves(srcs[i]) /\ \A j \in 1..(i - 1) : ~Resolves(srcs[j])}

\* C9: the candidates are tried in the given order and the value of the first
\* that resolves is used, no later one being evaluated; when none resolves the
\* field is missing; the caller sees a value or a validation failure only
\* (stated for the plain Field, whose pipeline adds nothing to the lookup)
C9_FirstCandidateOrMissing ==
    (/\ call.op = "Field.parse"
     /\ call.field.cls = "Field"
     /\ Truthy(call.field.source)
     /\ UsableDialect(call.field)) =>
        /\ ret.k = "ok" \/ ret.e.exc = "ValidationError"
        /\ \A i \in FirstResolving(Candidates(call.field)) :
              /\ [j \in DOMAIN FindCalls |-> FindCalls[j].x]
                    = SubSeq(Candidates(call.field), 1, i)
              /\ ret = run_validation(call.field,
                                      Reached(Candidates(call.field)[i].segs, doc)).out
        /\ FirstResolving(Candidates(call.field)) = {} =>
              /\ [j \in DOMAIN FindCalls |-> FindCalls[j].x] = Candidates(call.field)
              /\ ret = MissingOutcome(call.field)

\* the first candidate x.y meets the scalar at x: AttributeError leaves parse
\* and the second candidate y, which resolves, is not tried
C9_SecondCandidateNotTried ==
    /\ call.op = "Field.parse"
    /\ call.field.source = PyList(<<SrcXY, PyPath(<<"y">>)>>)
    /\ call.field.dialect = PyStr("default")
    /\ doc = PyDict(("x" :> PyInt(1)) @@ ("y" :> PyInt(2)))
    /\ Len(FindCalls) = 1
    /\ ret = Raise(AttributeError)

(***************************************************************************)
(* Properties of schema classes and schema validation (Spec)               *)
(***************************************************************************)
\* the top-level schema instance whose parse was called
Self == SchemaInstance(call.cls)

\* the outcome of a child field resolved against the document and validated
\* on its own
Child(name) == parse(fields(Self)[name], doc).out

\* the child fields that fail on their own
FailingChildren ==
    {n \in DOMAIN fields(Self) : Child(n).k = "raise" /\ Child(n).e.exc = "ValidationError"}

\* the child fields that do not return a value on their own
NotOk == {n \in DOMAIN fields(Self) : Child(n).k = "raise"}

\* C1: every child is resolved and validated whatever its siblings do; each
\* failing child contributes one failure retagged with its name, the schema
\* raises one untagged failure wrapping all of them, and a result is returned
\* only when no child failed
C1_ChildrenIndependent ==
    call.op = "Schema.parse" =>
        /\ \A n \in DOMAIN fields(Self) :
              \E i \in DOMAIN log : log[i].ev = "find" /\ log[i].f = PyStr(n)
        /\ IF NotOk = {}
           THEN ret = Ok(PyDict([n \in DOMAIN fields(Self) |-> Child(n).v]))
           ELSE /\ ret.k = "raise"
                /\ ret.e.exc = "ValidationError"
                /\ ret.e.field_name = None
                /\ Len(ret.e.messages) = Cardinality(NotOk)
                /\ \A n \in NotOk :
                      /\ n \in FailingChildren
                      /\ \E i \in DOMAIN ret.e.messages :
                            ret.e.messages[i] = ValidationError(Child(n).e.messages, PyStr(n))

\* a schema with two required fields parses the empty document: no child is
\* resolved and the failure is the schema's own blank message
C1_EmptyDocument ==
    /\ call.op = "Schema.parse"
    /\ doc = PyDict(EmptyMap)
    /\ DOMAIN fields(Self) = {"x", "y"}
    /\ FailingChildren = {"x", "y"}
    /\ log = <<>>
    /\ ret = Failure("blank")

\* the names a flattened view maps to message lists
NamedIn(view) ==
    IF view.t = "list"
    THEN {view.l[i].key : i \in {j \in DOMAIN view.l : "key" \in DOMAIN view.l[j]}}
    ELSE IF "key" \in DOMAIN view THEN {view.key}
    ELSE {PyStr(k) : k \in DOMAIN view.m}

\* the message list of a failing child in a flattened view
ListedFor(view, name) ==
    IF view.t = "list"
    THEN {view.l[i].val : i \in {j \in DOMAIN view.l :
                                   "key" \in DOMAIN view.l[j] /\ view.l[j].key = name}}
    ELSE IF "key" \in DOMAIN view THEN {view.val}
    ELSE {view.m[name.s]}

\* the flattened messages of a failing child: the required message for a
\* missing required field, for a nested schema the failures of its children
OwnMessages(name) ==
    IF Field_find(fields(Self)[name], doc).out = Ok(NULL)
    THEN PyList(<<PyStr("This field is required.")>>)
    ELSE PyList([i \in DOMAIN Child(name).e.messages |-> walk(Child(name).e.messages[i])])

\* C5: when a set of child fields of a top-level schema fails, parse raises one
\* failure whose flattened view names exactly the failing fields, each with
\* its own message list
C5_FlattenedNamesFailing ==
    /\ (call.op = "Schema.parse" /\ NotOk # {}) =>
          ret.k = "raise" /\ ret.e.exc = "ValidationError"
    /\ (call.op = "flatten_messages" /\ NotOk # {}) =>
          /\ NamedIn(ret.v) = {PyStr(n) : n \in FailingChildren}
          /\ \A n \in FailingChildren : ListedFor(ret.v, PyStr(n)) = {OwnMessages(n)}

\* both required fields are missing from the empty document and the flattened
\* view names neither
C5_BothMissingNoneNamed ==
    /\ call.op = "flatten_messages"
    /\ doc = PyDict(EmptyMap)
    /\ FailingChildren = {"x", "y"}
    /\ \A n \in {"x", "y"} : Field_find(fields(Self)[n], doc).out = Ok(NULL)
    /\ ret = Ok(PyList(<<PyStr("This field may not be empty.")>>))

\* C6 as stated: the flattened view of the failure of a top-level schema is a
\* single mapping from the failing names to their message lists
C6_SingleMapping ==
    call.op = "flatten_messages" =>
        /\ ret.v.t = "dict"
        /\ None \notin NamedIn(ret.v)

RECURSIVE FlatList(_)
\* a list of message texts and of single-entry mappings from a field name to
\* such a list
FlatList(view) ==
    /\ view.t = "list"
    /\ \A i \in DOMAIN view.l :
          \/ view.l[i].t = "str"
          \/ /\ view.l[i].t = "dict"
             /\ "key" \in DOMAIN view.l[i]
             /\ view.l[i].key \in {PyStr(n) : n \in Names}
             /\ FlatList(view.l[i].val)

\* C6: the flattened view of the failure of a top-level schema is a list: the
\* schema's own message texts when its document is null or blank, and
\* otherwise one single-entry mapping from name to message list per failing
\* child, in the order the fields are listed, a nested schema's entry holding
\* such a list again; no entry has an empty or null name
C6_ListOfSingleEntryMappings ==
    call.op = "flatten_messages" =>
        /\ FlatList(ret.v)
        /\ IF validate_empty_values(Self, doc).k = "raise"
           THEN ret.v = PyList(validate_empty_values(Self, doc).e.messages)
           ELSE [i \in DOMAIN ret.v.l |-> ret.v.l[i].key]
                    = SelectSeq([i \in DOMAIN order |-> PyStr(order[i])],
                                LAMBDA n : n.s \in FailingChildren)

\* a nested schema field fails on a child of its own: the entry under its name
\* holds the entry of that child
C6_NestedEntry ==
    /\ call.op = "flatten_messages"
    /\ FailingChildren = {"x", "y"}
    /\ IsSchema(fields(Self)["x"].cls)
    /\ order = <<"y", "x">>
    /\ ret.v.t = "list"
    /\ Len(ret.v.l) = 2
    /\ ret.v.l[1] = PyDict1(PyStr("y"), PyList(<<PyStr("This field is required.")>>))
    /\ ret.v.l[2] = PyDict1(PyStr("x"), PyList(<<
                        PyDict1(PyStr("x"), PyList(<<PyStr("This field is required.")>>))>>))

\* the declared fields of every schema class: its own, and those of its base
\* that it does not redeclare
DeclaredAsOwnThenBase ==
    \A T \in DOMAIN types \ {"Schema"} :
        /\ DOMAIN types[T]._declared_fields
              = DOMAIN types[T].attrs \cup DOMAIN types[types[T].bases[1]]._declared_fields
        /\ \A n \in DOMAIN types[T]._declared_fields :
              types[T]._declared_fields[n]
                  = IF n \in DOMAIN types[T].attrs THEN types[T].attrs[n]
                    ELSE types[types[T].bases[1]]._declared_fields[n]

\* C10: the fields of a derived schema class are the ancestor's plus its own, a
\* redeclared name having only the subclass's configuration and the others
\* inherited unchanged; defining the subclass leaves the ancestor as it was
C10_SubclassReplaces ==
    /\ []DeclaredAsOwnThenBase
    /\ [][\A T \in DOMAIN types : T \in DOMAIN types' /\ types'[T] = types[T]]_vars

\* Bar derives from Foo, redeclares x with another configuration and inherits y
C10_RedeclaredAndInherited ==
    /\ call = [op |-> "class", name |-> "Bar"]
    /\ types["Bar"].bases = <<"Foo">>
    /\ DOMAIN types["Bar"].attrs = {"x"}
    /\ DOMAIN types["Foo"]._declared_fields = {"x", "y"}
    /\ types["Bar"].attrs["x"] # types["Foo"]._declared_fields["x"]
    /\ types["Bar"]._declared_fields["x"] = types["Bar"].attrs["x"]
    /\ types["Bar"]._declared_fields["y"] = types["Foo"]._declared_fields["y"]

(***************************************************************************)
(* Objects: fields, validator lists and schema instances held by identity  *)
(***************************************************************************)
\* a reference to the object at position n of the heap
Id(n) == [t |-> "obj", id |-> n]

\* a list object
ListObject(items) == [kind |-> "list", cls |-> "list", items |-> items]

\* the outcome of an operation on the heap: the heap it leaves, and the
\* reference it returns or the exception it raises
H(h, out) == [h |-> h, out |-> out]

\* the constructor arguments of a field object: validators is None or a
\* reference to a list object, child is NULL (omitted) or a reference
ObjectKwargs == [DefaultKwargs EXCEPT !.validators = None]

\* the attributes Field.__init__ and Field.__new__ leave on a new object whose
\* validators attribute is the list object vid; _fields is NULL while the
\* object has no such attribute
FieldObject(cls, kw, vid) ==
    [kind |-> "field", cls |-> cls, _kwargs |-> kw,
     source |-> kw.source, default |-> kw.default, required |-> kw.required,
     null |-> kw.null, blank |-> kw.blank,
     validators |-> vid, post_process |-> kw.post_process,
     dialect |-> kw.dialect,
     default_blank_value |-> default_blank_value(cls, kw),
     parent |-> None, field_name |-> None,
     trim_whitespace |-> kw.trim_whitespace, child |-> NULL, formats |-> kw.formats,
     result_factory |-> Schema__init__(kw), _fields |-> NULL]

\* Field.__init__ on the heap: self.validators is the caller's list when that
\* list is non-empty and a new empty list otherwise; the new object comes last
Object__init__(h, cls, kw) ==
    IF kw.validators # None /\ h[kw.validators.id].items # <<>>
    THEN Append(h, FieldObject(cls, kw, kw.validators))
    ELSE h \o <<ListObject(<<>>), FieldObject(cls, kw, Id(Len(h) + 1))>>

\* BaseNumberField.__init__ after Field.__init__: the limit validators are
\* appended to self.validators, the list object itself
append_limit_validators(h, cls, kw) ==
    IF cls # "IntegerField" THEN h
    ELSE [h EXCEPT ![h[Len(h)].validators.id].items = @ \o limit_validators(cls, kw)]

\* Field.bind on the object at id; a field name used as a path source is a
\* one-segment path
bind_object(h, id, field_name, parent) ==
    [h EXCEPT ![id.id].parent = parent,
              ![id.id].field_name = PyStr(field_name),
              ![id.id].source = IF @ = None
                                THEN PyPath(IF field_name = "" THEN <<>> ELSE <<field_name>>)
                                ELSE @]

\* the constructor arguments of the class attribute child of ListField and
\* DictField: Field(null=True, blank=True)
class_child_kwargs == [ObjectKwargs EXCEPT !.null = TRUE, !.blank = TRUE]

\* ListField.__init__ and DictField.__init__ from the assertions on: h ends
\* with the new object, child is self.child
Container__init__checked(h, child) ==
    IF h[child.id].source # None
    THEN H([h EXCEPT ![Len(h)].child = child], Raise(AssertionError))
    ELSE H(bind_object([h EXCEPT ![Len(h)].child = child], child, "", Id(Len(h))),
           Ok(Id(Len(h))))

\* ListField.__init__ and DictField.__init__: the default of kwargs.pop, a deep
\* copy of the class attribute child, is made whether or not a child is given
Container__init__(h, cls, kw) ==
    Container__init__checked(
        Object__init__(Object__init__(h, "Field", class_child_kwargs), cls, kw),
        IF kw.child # NULL THEN kw.child ELSE Id(Len(h) + 2))

\* cls(**kw): the new object is the last of the heap when no exception is raised
New_object(h, cls, kw) ==
    IF cls \in {"ListField", "DictField"} THEN Container__init__(h, cls, kw)
    ELSE H(append_limit_validators(Object__init__(h, cls, kw), cls, kw),
           Ok(Id(Len(Object__init__(h, cls, kw)))))

\* a copy that is the object itself
share_object(h, id) == H(h, Ok(id))

RECURSIVE deepcopy_object(_, _)
\* copy.deepcopy of the constructor arguments: the validators list given to
\* validators=
deepcopy_validators(h, kw) ==
    IF kw.validators = None THEN H(h, Ok(None))
    ELSE H(Append(h, ListObject(h[kw.validators.id].items)), Ok(Id(Len(h) + 1)))

\* Field.__deepcopy__ once the arguments are copied: vs and ch are the copies
\* of validators= and child=
deepcopy_object_new(cls, kw, vs, ch) ==
    New_object(ch.h, cls, [kw EXCEPT !.validators = vs.out.v, !.child = ch.out.v])

\* Field.__deepcopy__ from the copy of child= on
deepcopy_object_child(id, kw, vs) ==
    deepcopy_object_new(vs.h[id.id].cls, kw, vs,
                        IF kw.child = NULL THEN H(vs.h, Ok(NULL))
                        ELSE deepcopy_object(vs.h, kw.child))

\* Field.__deepcopy__: a new object of the same class from deep copies of the
\* constructor arguments
deepcopy_object(h, id) ==
    deepcopy_object_child(id, h[id.id]._kwargs, deepcopy_validators(h, h[id.id]._kwargs))

(***************************************************************************)
(* schema.py: Schema.fields and Schema.convert_to_type, statement by       *)
(* statement, for execution contexts that share schema instances           *)
(***************************************************************************)
\* the field the object at id is, its validators list and its child read
\* through their references
RECURSIVE FieldValue(_, _)
FieldValue(h, id) ==
    [h[id.id] EXCEPT !.validators = h[@.id].items,
                     !.child = IF @ = NULL THEN NULL ELSE FieldValue(h, @),
                     !.parent = IF @ = None THEN None ELSE Ref(h[@.id].cls)]

RECURSIVE deepcopy_dict(_, _, _, _)
\* one entry of the dict copy.deepcopy copies: copied is the outcome of the
\* __deepcopy__ of the entry's field
deepcopy_dict_entry(d, names, copies, copied) ==
    deepcopy_dict(copied.h, d, Tail(names), (Head(names) :> copied.out.v) @@ copies)

\* copy.deepcopy(self._declared_fields): every declared field is copied
deepcopy_dict(h, d, names, copies) ==
    IF names = <<>> THEN [h |-> h, copies |-> copies]
    ELSE deepcopy_dict_entry(d, names, copies, deepcopy_object(h, d[Head(names)]))

\* the names of a dict of fields in the order the dict lists them
NamesOf(d) == SelectSeq(order, LAMBDA n : n \in DOMAIN d)

\* an execution context that is not inside a call
Idle(out, calls) ==
    [pc |-> "idle", self |-> None, copies |-> EmptyMap, todo |-> <<>>, items |-> <<>>,
     result |-> EmptyMap, errors |-> <<>>, out |-> out, calls |-> calls]

\* the end of one turn of the loop of Schema.convert_to_type in the context th:
\* validated is the outcome of the try block
Turn_done(th, name, validated) ==
    IF validated.k = "ok"
    THEN [th EXCEPT !.items = Tail(@), !.result = (name.s :> validated.v) @@ @]
    ELSE IF validated.e.exc = "ValidationError"
    THEN [th EXCEPT !.items = Tail(@),
                    !.errors = Append(@, ValidationError(validated.e.messages, name))]
    ELSE Idle(validated, th.calls)

\* one turn from the try block on: run is the outcome of
\* field.run_validation(raw_value)
Turn_run(th, self, name, run) ==
    Turn_done(th, name,
              IF run.out.k = "raise" THEN run.out
              ELSE call_validate_method(self, name.s, run.out.v))

\* one turn from field.find on: raw_value is its outcome
Turn_found(th, self, field, raw_value) ==
    IF raw_value.out.k = "raise" THEN Idle(raw_value.out, th.calls)
    ELSE Turn_run(th, self, field.field_name, run_validation(field, raw_value.out.v))

\* one turn of the loop of Schema.convert_to_type for the field object fid
Turn(h, th, fid) ==
    Turn_found(th, FieldValue(h, th.self), FieldValue(h, fid),
               Field_find(FieldValue(h, fid), doc))

(***************************************************************************)
(* The inputs and operations on objects                                    *)
(***************************************************************************)
\* the most schema instances created, and the most parse calls made
MaxInstances == 2

MaxCalls == 2

\* the execution contexts
Contexts == {1, 2}

\* the class bodies of Foo: what the attribute of each name is constructed by
Declarations ==
    ("x" :> {"Field(validators=[MinValue(1)])", "IntegerField(min_value=1)"})
    @@ ("y" :> {"ListField(child=Field())"})

\* the evaluation of one attribute of the class body
Declare(h, declaration) ==
    CASE declaration = "Field()" -> New_object(h, "Field", ObjectKwargs)
      [] declaration = "Field(validators=[MinValue(1)])" ->
            New_object(Append(h, ListObject(<<MinValue(1)>>)), "Field",
                       [ObjectKwargs EXCEPT !.validators = Id(Len(h) + 1)])
      [] declaration = "IntegerField(min_value=1)" ->
            New_object(h, "IntegerField", [ObjectKwargs EXCEPT !.min_value = PyInt(1)])
      [] declaration = "ListField()" -> New_object(h, "ListField", ObjectKwargs)
      [] declaration = "ListField(child=Field())" ->
            New_object(New_object(h, "Field", ObjectKwargs).h, "ListField",
                       [ObjectKwargs EXCEPT !.child = Id(Len(h) + 2)])

\* class Foo(Schema): x = <dx>; y = <dy>, from the evaluation of y on: hx is
\* the outcome of the evaluation of x
Foo_y(hx, dy) ==
    [h |-> Declare(hx.h, dy).h,
     type |-> SchemaMetaClass__new__(<<"Schema">>,
                                     ("x" :> hx.out.v) @@ ("y" :> Declare(hx.h, dy).out.v),
                                     EmptyMap)]

\* class Foo(Schema): x = <dx>; y = <dy>
Foo(dx, dy) == Foo_y(Declare(<<>>, dx), dy)

ObjectDocs ==
    {PyDict(("x" :> PyInt(1)) @@ ("y" :> PyList(<<PyInt(1)>>))),
     PyDict(("x" :> PyInt(0)) @@ ("y" :> PyList(<<PyInt(1)>>)))}

\* the schema instances created so far
SchemaInstances == {Id(i) : i \in {j \in DOMAIN heap : heap[j].cls = "Foo"}}

\* self._declared_fields
_declared_fields(self) == types[heap[self.id].cls]._declared_fields

\* Foo()
Instantiate ==
    /\ "Foo" \in DOMAIN types
    /\ \A t \in Contexts : threads[t].pc = "idle"
    /\ Cardinality(SchemaInstances) < MaxInstances
    /\ heap' = New_object(heap, "Foo", ObjectKwargs).h
    /\ UNCHANGED <<doc, jmespath, parse_datetime, order, types, call, ret, log, threads>>

\* the parse calls made so far
Calls == threads[1].calls + threads[2].calls

\* self.parse(doc) up to the call of convert_to_type, in context t: Schema.find
\* returns the document, then validate_empty_values
Call(t) ==
    /\ threads[t].pc = "idle"
    /\ Calls < MaxCalls
    /\ \E self \in SchemaInstances :
           \E empty \in {validate_empty_values(FieldValue(heap, self), doc)} :
               threads' = [threads EXCEPT ![t] =
                   IF empty.k = "raise" THEN Idle(empty, @.calls + 1)
                   ELSE IF empty.v[1] THEN Idle(Ok(empty.v[2]), @.calls + 1)
                   ELSE [Idle(NULL, @.calls + 1) EXCEPT !.pc = "fields", !.self = self]]
    /\ UNCHANGED <<doc, jmespath, parse_datetime, order, types, call, ret, log, heap>>

\* a fields property that builds the field map at every access
Fields_uncached(t) ==
    /\ threads[t].pc = "fields"
    /\ threads' = [threads EXCEPT ![t].pc = "publish"]
    /\ UNCHANGED <<doc, jmespath, parse_datetime, order, types, call, ret, log, heap>>

\* Schema.fields: if not hasattr(self, '_fields')
Fields(t) ==
    /\ threads[t].pc = "fields"
    /\ threads' = [threads EXCEPT ![t].pc =
                      IF heap[threads[t].self.id]._fields = NULL THEN "publish" ELSE "items"]
    /\ UNCHANGED <<doc, jmespath, parse_datetime, order, types, call, ret, log, heap>>

\* Schema.fields: self._fields = {}
Publish(t) ==
    /\ threads[t].pc = "publish"
    /\ heap' = [heap EXCEPT ![threads[t].self.id]._fields = EmptyMap]
    /\ threads' = [threads EXCEPT ![t].pc = "copy"]
    /\ UNCHANGED <<doc, jmespath, parse_datetime, order, types, call, ret, log>>

\* Schema.fields: declared_fields = copy.deepcopy(self._declared_fields), and
\* the start of the loop over declared_fields.items()
Copy(t) ==
    /\ threads[t].pc = "copy"
    /\ \E c \in {deepcopy_dict(heap, _declared_fields(threads[t].self),
                               NamesOf(_declared_fields(threads[t].self)), EmptyMap)} :
           /\ heap' = c.h
           /\ threads' = [threads EXCEPT ![t].copies = c.copies,
                                         ![t].todo = NamesOf(c.copies),
                                         ![t].pc = IF c.copies = EmptyMap THEN "items"
                                                   ELSE "bind"]
    /\ UNCHANGED <<doc, jmespath, parse_datetime, order, types, call, ret, log>>

\* Schema.fields: field.bind(name, self)
Bind(t) ==
    /\ threads[t].pc = "bind"
    /\ heap' = bind_object(heap, threads[t].copies[Head(threads[t].todo)],
                           Head(threads[t].todo), threads[t].self)
    /\ threads' = [threads EXCEPT ![t].pc = "insert"]
    /\ UNCHANGED <<doc, jmespath, parse_datetime, order, types, call, ret, log>>

\* Schema.fields: self._fields[name] = field, into the dict self._fields is now
Insert(t) ==
    /\ threads[t].pc = "insert"
    /\ heap' = [heap EXCEPT ![threads[t].self.id]._fields =
                   (Head(threads[t].todo) :> threads[t].copies[Head(threads[t].todo)]) @@ @]
    /\ threads' = [threads EXCEPT ![t].todo = Tail(@),
                                  ![t].pc = IF Tail(threads[t].todo) = <<>> THEN "items"
                                            ELSE "bind"]
    /\ UNCHANGED <<doc, jmespath, parse_datetime, order, types, call, ret, log>>

\* Schema.fields: return self._fields, and Schema.convert_to_type:
\* self.fields.items(), the list of the entries the dict has now
Items(t) ==
    /\ threads[t].pc = "items"
    /\ threads' = [threads EXCEPT
           ![t].items = [i \in DOMAIN NamesOf(heap[threads[t].self.id]._fields) |->
                            heap[threads[t].self.id]._fields[
                                NamesOf(heap[threads[t].self.id]._fields)[i]]],
           ![t].pc = "loop"]
    /\ UNCHANGED <<doc, jmespath, parse_datetime, order, types, call, ret, log, heap>>

\* Schema.convert_to_type: one turn of the loop
Loop(t) ==
    /\ threads[t].pc = "loop"
    /\ threads[t].items # <<>>
    /\ \E th \in {Turn(heap, threads[t], Head(threads[t].items))} :
           threads' = [threads EXCEPT ![t] = th]
    /\ UNCHANGED <<doc, jmespath, parse_datetime, order, types, call, ret, log, heap>>

\* Schema.convert_to_type after the loop, and the rest of run_validation
Return(t) ==
    /\ threads[t].pc = "loop"
    /\ threads[t].items = <<>>
    /\ \E r \in {run_validation_converted(
                    FieldValue(heap, threads[t].self),
                    IF threads[t].errors # <<>>
                    THEN R(Raise(ValidationError(threads[t].errors,
                                                 heap[threads[t].self.id].field_name)), <<>>)
                    ELSE Schema_result(FieldValue(heap, threads[t].self),
                                       threads[t].result))} :
           threads' = [threads EXCEPT ![t] = Idle(r.out, @.calls)]
    /\ UNCHANGED <<doc, jmespath, parse_datetime, order, types, call, ret, log, heap>>

\* class Foo(Schema): x = <dx>; y = <dy>
DefineFoo ==
    /\ "Foo" \notin DOMAIN types
    /\ \E dx \in Declarations["x"], dy \in Declarations["y"] :
           \E foo \in {Foo(dx, dy)} :
               /\ heap' = foo.h
               /\ types' = ("Foo" :> foo.type) @@ types
    /\ UNCHANGED <<doc, jmespath, parse_datetime, order, call, ret, log, threads>>

InitObjects ==
    /\ doc \in ObjectDocs
    /\ order = <<"x", "y">>
    /\ jmespath = FALSE
    /\ parse_datetime = TRUE
    /\ heap = <<>>
    /\ types = RootTypes
    /\ call = NoCall
    /\ ret = NULL
    /\ log = <<>>
    /\ threads = [t \in Contexts |-> Idle(NULL, 0)]

NextObjects ==
    \/ DefineFoo
    \/ Instantiate
    \/ \E t \in Contexts :
           \/ Call(t)
           \/ Fields(t)
           \/ Publish(t)
           \/ Copy(t)
           \/ Bind(t)
           \/ Insert(t)
           \/ Items(t)
           \/ Loop(t)
           \/ Return(t)

SpecObjects == InitObjects /\ [][NextObjects]_vars

(***************************************************************************)
(* Properties of schema instances and their field maps (SpecObjects)       *)
(***************************************************************************)
\* the field prototypes of the schema classes
Declared == UNION {{types[T]._declared_fields[n] : n \in DOMAIN types[T]._declared_fields} :
                   T \in DOMAIN types}

\* a field object with the objects it holds: its validators list, its child
\* and the child's validators list
Held(id) ==
    {id, heap[id.id].validators}
    \cup (IF heap[id.id].child = NULL THEN {}
          ELSE {heap[id.id].child, heap[heap[id.id].child.id].validators})

\* the objects held by the field map of the schema instance s
Owned(s) ==
    IF heap[s.id]._fields = NULL THEN {}
    ELSE UNION {Held(heap[s.id]._fields[n]) : n \in DOMAIN heap[s.id]._fields}

\* C11: whatever instantiations, field-map builds and parse calls were made,
\* the prototypes of the class stay unbound (no field name, no parent, the
\* source as declared), every field of an instance's field map has that
\* instance as parent and its attribute name as field name, and no field of a
\* field map, nor its validators list or child, is held by the field map of
\* another instance or by a prototype
C11_ClonedPerInstance ==
    /\ \A p \in Declared :
           /\ heap[p.id].field_name = None
           /\ heap[p.id].parent = None
           /\ heap[p.id].source = heap[p.id]._kwargs.source
    /\ \A s \in SchemaInstances :
           /\ heap[s.id]._fields # NULL =>
                  \A n \in DOMAIN heap[s.id]._fields :
                      /\ heap[heap[s.id]._fields[n].id].parent = s
                      /\ heap[heap[s.id]._fields[n].id].field_name = PyStr(n)
           /\ Owned(s) \cap UNION {Held(p) : p \in Declared} = {}
           /\ \A s2 \in SchemaInstances \ {s} : Owned(s) \cap Owned(s2) = {}

\* two instances with complete field maps, each parsed by one context
C11_TwoInstancesParsed ==
    /\ Cardinality(SchemaInstances) = 2
    /\ \A s \in SchemaInstances :
           /\ heap[s.id]._fields # NULL
           /\ DOMAIN heap[s.id]._fields = {"x", "y"}
           /\ Cardinality(Owned(s)) = 6
    /\ \A t \in Contexts : threads[t].pc = "idle" /\ threads[t].calls = 1

\* the contexts inside the build of the field map of the schema instance s
Building(s) ==
    {t \in Contexts : threads[t].pc \in {"publish", "copy", "bind", "insert"}
                      /\ threads[t].self = s}

\* the field map of s holds every declared field and no context is building it
Built(s) ==
    /\ heap[s.id]._fields # NULL
    /\ DOMAIN heap[s.id]._fields = DOMAIN _declared_fields(s)
    /\ Building(s) = {}

\* what Field.bind has set on the field object at id
Binding(h, id) == <<h[id.id].field_name, h[id.id].parent, h[id.id].source>>

\* C19, the part that holds at every step: once the field map of a schema
\* instance is built and no context is still building it, it stays built, a
\* step leaves the map and the binding of each of its fields as they are, and
\* a context that reads the map in the step gets every declared field
C19_BuiltMapIsKept ==
    [][\A s \in SchemaInstances :
           Built(s) =>
               /\ Built(s)'
               /\ heap'[s.id]._fields = heap[s.id]._fields
               /\ \A n \in DOMAIN heap[s.id]._fields :
                      Binding(heap', heap[s.id]._fields[n])
                          = Binding(heap, heap[s.id]._fields[n])
               /\ \A t \in Contexts :
                      (/\ threads[t].pc = "items"
                       /\ threads[t].self = s
                       /\ threads'[t].pc = "loop")
                      => Len(threads'[t].items) = Cardinality(DOMAIN _declared_fields(s))
    ]_vars

\* C19, the interleaving: of two contexts that made the first use of the one
\* schema instance, one is still building the field map and the other has
\* returned from parse a result that lacks a declared field, having read the
\* published map before it was complete
C19_ParsedWithIncompleteMap ==
    /\ Cardinality(SchemaInstances) = 1
    /\ \E t \in Contexts, u \in Contexts :
           /\ threads[u].pc \in {"copy", "bind", "insert"}
           /\ threads[t].pc = "idle"
           /\ threads[t].calls = 1
           /\ threads[t].out # NULL
           /\ threads[t].out.k = "ok"
           /\ DOMAIN threads[t].out.v.m # {"x", "y"}

(***************************************************************************)
(* List and dict fields on their own (SpecContainer)                       *)
(***************************************************************************)
\* the most elements of a list of a document
MaxItems == 2

Elements == {None, PyInt(0), PyInt(1), PyInt(2), PyStr("a")}

ElementLists == UNION {[1..n -> Elements] : n \in 0..MaxItems}

\* documents whose x is a list, a dict or neither
ContainerDocs ==
    {PyDict("x" :> PyList(l)) : l \in ElementLists}
    \cup {PyDict("x" :> PyDict(m)) : m \in [{"y"} -> Elements] \cup [{"y", "z"} -> Elements]}
    \cup {PyDict("x" :> v) : v \in {PyInt(1), PyStr("a"), PyDict(EmptyMap)}}
    \cup {PyDict(EmptyMap)}

\* the child= of a list or dict field; NULL when the argument is omitted
Children ==
    {NULL,
     New("IntegerField", [DefaultKwargs EXCEPT !.min_value = PyInt(2)]),
     New("IntegerField", [DefaultKwargs EXCEPT !.null = TRUE]),
     New("Field", [DefaultKwargs EXCEPT !.post_process = <<Box>>])}

ContainerFields ==
    {New(cls, [DefaultKwargs EXCEPT !.source = PyPath(<<"x">>), !.child = c,
                                    !.dialect = PyStr("default")]) :
        cls \in {"ListField", "DictField"}, c \in Children}

\* field.parse(doc) for a list or dict field used on its own
ContainerParse ==
    /\ call = NoCall
    /\ \E field \in ContainerFields :
           \E r \in {parse(field, doc)} :
               /\ call' = [op |-> "Field.parse", field |-> field]
               /\ ret' = r.out
               /\ log' = r.log
    /\ UNCHANGED <<doc, jmespath, parse_datetime, order, types, heap, threads>>

InitContainer ==
    /\ doc \in ContainerDocs
    /\ order = <<"x", "y">>
    /\ types = RootTypes
    /\ InitEnv

NextContainer == ContainerParse

SpecContainer == InitContainer /\ [][NextContainer]_vars

(***************************************************************************)
(* Properties of list and dict fields (SpecContainer)                      *)
(***************************************************************************)
\* the list the field of the call was given
GivenList == doc.m["x"].l

\* the outcome of the child's pipeline on the element at i
ElementRun(i) == run_validation(call.field.child, GivenList[i])

\* the elements whose own validation fails
FailingElements == {i \in DOMAIN GivenList : ElementRun(i).out.k = "raise"}

\* the elements validated: all of them, or those up to the first failing one
ValidatedElements ==
    IF FailingElements = {} THEN DOMAIN GivenList
    ELSE 1..(CHOOSE i \in FailingElements : \A j \in FailingElements : i <= j)

RECURSIVE ElementLogs(_)
\* the calls the child's pipeline makes on the first n elements, in order
ElementLogs(n) == IF n = 0 THEN <<>> ELSE ElementLogs(n - 1) \o ElementRun(n).log

\* C12: a list field runs its child's pipeline on the elements in input
\* order; the first element that fails ends it with that element's failure
\* and no later element is validated; when no element fails the result holds
\* the validated elements in the order and number of the input
C12_ListFailFast ==
    (/\ call.op = "Field.parse"
     /\ call.field.cls = "ListField"
     /\ "x" \in DOMAIN doc.m
     /\ doc.m["x"].t = "list"
     /\ doc.m["x"].l # <<>>) =>
        /\ SelectSeq(log, LAMBDA e : e.f = PyStr("")) =
               ElementLogs(Cardinality(ValidatedElements))
        /\ IF FailingElements # {}
           THEN ret = ElementRun(Cardinality(ValidatedElements)).out
           ELSE /\ ret.k = "ok"
                /\ ret.v = PyList([i \in DOMAIN GivenList |-> ElementRun(i).out.v])

\* the limit of the child fails the first element although the second passes it
C12_FirstInvalidLaterValid ==
    /\ call.op = "Field.parse"
    /\ call.field.cls = "ListField"
    /\ call.field.child.cls = "IntegerField"
    /\ doc = PyDict("x" :> PyList(<<PyInt(1), PyInt(2)>>))
    /\ ret = Raise(ValidationError(
                 <<PyStr("Ensure this field is greater than or equal to 2.")>>, None))
    /\ Len(SelectSeq(log, LAMBDA e : e.f = PyStr("") /\ e.ev = "convert_to_type")) = 1

\* the call gave a field of class cls a present value that is not null, not
\* blank and not of the container type ty
GivenOther(cls, ty) ==
    /\ call.op = "Field.parse"
    /\ call.field.cls = cls
    /\ "x" \in DOMAIN doc.m
    /\ doc.m["x"].t \notin {ty, "none"}
    /\ ~is_blank(call.field, doc.m["x"])

\* C13: a dict field given a present, non-blank value that is not a mapping
\* fails with a validation failure, as a list field given a value that is not
\* iterable does, and not with an assertion failure
C13_DictRejectsNonMapping ==
    /\ GivenOther("DictField", "dict") =>
           ret.k = "raise" /\ ret.e.exc = "ValidationError"
    /\ (GivenOther("ListField", "list") /\ ~is_non_str_iterable(doc.m["x"])) =>
           ret.k = "raise" /\ ret.e.exc = "ValidationError"

\* a dict field given an int ends in an assertion failure, while a list field
\* given the same int fails with its invalid_type message
C13_AssertionForInt ==
    /\ GivenOther("DictField", "dict")
    /\ doc.m["x"] = PyInt(1)
    /\ ret = Raise(AssertionError)
    /\ parse(New("ListField", [DefaultKwargs EXCEPT !.source = PyPath(<<"x">>),
                                                    !.dialect = PyStr("default")]),
             doc).out
       = Raise(ValidationError(
             <<PyStr("Expected a list of items but got type 'int'.")>>, None))

(***************************************************************************)
(* Boolean, date and datetime fields on their own (SpecCoerce)             *)
(***************************************************************************)
BooleanTexts ==
    {"true", "t", "yes", "y", "1", "false", "f", "no", "n", "0",
     "TRUE", "T", "Yes", "Y", "False", "F", "NO", "N", "a", "A", "", " "}

\* the values test_bool_field gives a boolean field, and more texts
BooleanValues ==
    {PyStr(s) : s \in BooleanTexts}
    \cup {None, PyInt(0), PyInt(1), PyBool(TRUE), PyBool(FALSE),
          PyList(<<>>), PyList(<<PyInt(1)>>), PyDict(EmptyMap), PyDict("y" :> PyInt(1))}

BooleanFields ==
    {New("BooleanField", [DefaultKwargs EXCEPT !.source = PyPath(<<"x">>),
                                               !.dialect = PyStr("default"),
                                               !.null = n, !.blank = b]) :
        n \in BOOLEAN, b \in BOOLEAN}

\* the values test_date_field and test_datetime_field give a date field
DateValues ==
    {PyDate("2015-03-13"),
     PyDateTime("2015-03-13", "00:00:00"), PyDateTime("2015-03-13", "12:00:00"),
     PyStr("2015-03-13"), PyStr("2015-03-13 12:00:00"), PyStr(" 2015-03-13 "),
     PyStr("a"), PyStr(""), PyInt(1), None}

DateFormats == {<<ISO_8601>>, <<"%Y-%m-%d">>, <<"%Y-%m-%d", ISO_8601>>}

DateFields ==
    {New(cls, [DefaultKwargs EXCEPT !.source = PyPath(<<"x">>),
                                    !.dialect = PyStr("default"),
                                    !.null = n, !.formats = fs]) :
        cls \in {"DateField", "DateTimeField"}, n \in BOOLEAN, fs \in DateFormats}

CoerceDocs == {PyDict("x" :> v) : v \in BooleanValues \cup DateValues}

\* field.parse(doc) for a boolean field used on its own
BooleanParse ==
    /\ call = NoCall
    /\ doc.m["x"] \in BooleanValues
    /\ \E field \in BooleanFields :
           \E r \in {parse(field, doc)} :
               /\ call' = [op |-> "Field.parse", field |-> field]
               /\ ret' = r.out
               /\ log' = r.log
    /\ UNCHANGED <<doc, jmespath, parse_datetime, order, types, heap, threads>>

\* field.parse(doc) for a date or datetime field used on its own
DateParse ==
    /\ call = NoCall
    /\ doc.m["x"] \in DateValues
    /\ \E field \in DateFields :
           \E r \in {parse(field, doc)} :
               /\ call' = [op |-> "Field.parse", field |-> field]
               /\ ret' = r.out
               /\ log' = r.log
    /\ UNCHANGED <<doc, jmespath, parse_datetime, order, types, heap, threads>>

InitCoerce ==
    /\ doc \in CoerceDocs
    /\ order = <<"x", "y">>
    /\ types = RootTypes
    /\ jmespath = FALSE
    /\ parse_datetime \in BOOLEAN
    /\ call = NoCall
    /\ ret = NULL
    /\ log = <<>>
    /\ heap = <<>>
    /\ threads = <<>>

NextCoerce == BooleanParse \/ DateParse

SpecCoerce == InitCoerce /\ [][NextCoerce]_vars

(***************************************************************************)
(* Properties of the boolean and date fields (SpecCoerce)                  *)
(***************************************************************************)
\* the field.parse(doc) of the state is of a field of class cls
Coerced(cls) == call # NoCall /\ call.field.cls = cls

Given == doc.m["x"]

FailsWith(message) ==
    /\ ret.k = "raise"
    /\ ret.e.exc = "ValidationError"
    /\ ret.e.messages = <<PyStr(message)>>

CarriesTime(v) == v.t = "datetime" \/ v = PyStr("2015-03-13 12:00:00")

BareDate(v) == v.t = "date" \/ v \in {PyStr("2015-03-13"), PyStr(" 2015-03-13 ")}

\* C15 as stated: whatever the representation of the input, an object or a
\* text, a DateField given a value with a time of day fails with 'Expected a
\* date but got a datetime.' and a DateTimeField given a bare date fails with
\* 'Expected a datetime but got a date.'
C15_RejectsEveryRepresentation ==
    /\ (Coerced("DateField") /\ CarriesTime(Given))
           => FailsWith("Expected a date but got a datetime.")
    /\ (Coerced("DateTimeField") /\ BareDate(Given))
           => FailsWith("Expected a datetime but got a date.")

\* the text of the model a format of the field parses, given the date-parsing
\* collaborator is there for the ISO format
ParsedBy(field, text) ==
    \/ field.formats[1] = ISO_8601 /\ parse_datetime
    \/ field.formats[1] = "%Y-%m-%d" /\ text # "2015-03-13 12:00:00"
    \/ field.formats = <<"%Y-%m-%d", ISO_8601>> /\ parse_datetime

\* C15, amended: a DateField given a datetime OBJECT fails with 'Expected a
\* date but got a datetime.' and a DateTimeField given a date OBJECT fails with
\* 'Expected a datetime but got a date.'.  A text is parsed by the formats
\* instead: a DateField drops the time of day the text carries and returns
\* the date, a DateTimeField returns midnight of the bare date of the text.
C15_RejectsObjectsParsesText ==
    /\ (Coerced("DateField") /\ Given.t = "datetime")
           => FailsWith("Expected a date but got a datetime.")
    /\ (Coerced("DateTimeField") /\ Given.t = "date")
           => FailsWith("Expected a datetime but got a date.")
    /\ (Coerced("DateField") /\ Given = PyStr("2015-03-13 12:00:00")
           /\ ParsedBy(call.field, "2015-03-13 12:00:00"))
           => ret = Ok(PyDate("2015-03-13"))
    /\ (Coerced("DateTimeField")
           /\ Given \in {PyStr("2015-03-13"), PyStr(" 2015-03-13 ")}
           /\ ParsedBy(call.field, "2015-03-13"))
           => ret = Ok(PyDateTime("2015-03-13", "00:00:00"))

\* a DateField has returned the date of a text that carries a time of day
C15_TextTimeDropped ==
    /\ Coerced("DateField")
    /\ Given = PyStr("2015-03-13 12:00:00")
    /\ ret = Ok(PyDate("2015-03-13"))

TrueTexts == {"true", "TRUE", "t", "T", "yes", "Yes", "y", "Y", "1"}

FalseTexts == {"false", "False", "f", "F", "no", "NO", "n", "N", "0"}

\* bool(v) of a value that is none of the texts above
GenericTruth(v) ==
    CASE v.t = "str"  -> v.s # ""
      [] v.t = "int"  -> v.n # 0
      [] v.t = "bool" -> v.b
      [] v.t = "list" -> v.l # <<>>
      [] v.t = "dict" -> DOMAIN v.m # {}

\* C16: a BooleanField maps a present value that is not None to true for a
\* text that is, whatever its letter case, one of true/t/yes/y/1, to false for
\* one of false/f/no/n/0, and to its truthiness otherwise; it never fails
\* with 'blank', so '', [] and {} give false
C16_BooleanMapping ==
    (Coerced("BooleanField") /\ Given # None) =>
        ret = Ok(PyBool(IF Given.t = "str" /\ Given.s \in TrueTexts THEN TRUE
                        ELSE IF Given.t = "str" /\ Given.s \in FalseTexts THEN FALSE
                        ELSE GenericTruth(Given)))

\* a BooleanField that does not allow blank has returned false for ''
C16_EmptyTextIsFalse ==
    /\ Coerced("BooleanField")
    /\ ~call.field.blank
    /\ Given = PyStr("")
    /\ ret = Ok(PyBool(FALSE))

(***************************************************************************)
(* Dialects of path.find and of the fields of a schema (SpecDialect)       *)
(***************************************************************************)
\* the class bodies of the next class: Foo declares y with a dialect, alone
\* or after x; Bar holds an instance of Foo
DialectBodies(name) ==
    IF name = "Foo"
    THEN {("y" :> New("Field", [DefaultKwargs EXCEPT !.dialect = d])) : d \in Dialects}
         \cup {("x" :> p) @@ ("y" :> New("Field", [DefaultKwargs EXCEPT !.dialect = d])) :
                  p \in Prototypes["x"], d \in Dialects}
    ELSE {"x" :> SchemaInstance("Foo")}

\* class <name>(Schema): <attrs>, the next class of TypeNames
DefineDialects ==
    /\ call.op \in {"init", "class"}
    /\ \E i \in DOMAIN TypeNames :
           /\ TypeNames[i] \notin DOMAIN types
           /\ \A j \in 1..(i - 1) : TypeNames[j] \in DOMAIN types
           /\ \E attrs \in DialectBodies(TypeNames[i]) :
                  types' = (TypeNames[i] :>
                               SchemaMetaClass__new__(<<"Schema">>, attrs, EmptyMap))
                           @@ types
           /\ call' = [op |-> "class", name |-> TypeNames[i]]
    /\ ret' = NULL
    /\ log' = <<>>
    /\ UNCHANGED <<doc, jmespath, parse_datetime, order, heap, threads>>

InitDialect ==
    /\ doc \in SchemaDocs
    /\ order \in Orders
    /\ types = RootTypes
    /\ InitEnv

NextDialect == FindDialect \/ DefineDialects \/ SchemaParse

SpecDialect == InitDialect /\ [][NextDialect]_vars

\* the path lookups the parse of the state made for the field y of Foo
LookupsOfY == SelectSeq(log, LAMBDA e : e.ev = "find" /\ e.f = PyStr("y"))

KnownDialects == {None, PyStr("default"), PyStr("jmespath")}

\* C17: find with a dialect name other than None, 'default' and 'jmespath'
\* raises GenericError for every path and document, never a value and never
\* NotFound; and when a field of a schema has such a dialect, the parse of the
\* schema that looks the field up raises that GenericError to its caller: it
\* is not collected into a ValidationError
C17_UnknownDialect ==
    /\ (call.op = "find" /\ call.dialect \notin KnownDialects)
           => ret = Raise(GenericError)
    /\ (call.op = "Schema.parse" /\ LookupsOfY # <<>>
           /\ types["Foo"]._declared_fields["y"].dialect \notin KnownDialects)
           => ret = Raise(GenericError)

\* the parse of a Foo has collected the failure of x, which the document
\* lacks, and then raised the GenericError of y's dialect
C17_RaisedAfterCollectedFailure ==
    /\ call.op = "Schema.parse"
    /\ call.cls = "Foo"
    /\ order = <<"x", "y">>
    /\ "x" \in DOMAIN types["Foo"]._declared_fields
    /\ doc = PyDict("y" :> PyInt(1))
    /\ types["Foo"]._declared_fields["y"].dialect = PyStr("dummy")
    /\ ret = Raise(GenericError)

(***************************************************************************)
(* Construction of list and dict fields (SpecConstruct)                    *)
(***************************************************************************)
\* the constructions of one behaviour
MaxObjects == 3

\* the field objects of the heap
FieldIds == {Id(i) : i \in {j \in DOMAIN heap : heap[j].kind = "field"}}

\* Field(source) and IntegerField(source): a field to give as child=
NewChild ==
    /\ Len(log) < MaxObjects
    /\ \E cls \in {"Field", "IntegerField"}, source \in {None, PyPath(<<"x">>)} :
           \E r \in {New_object(heap, cls, [ObjectKwargs EXCEPT !.source = source])} :
               /\ heap' = r.h
               /\ ret' = r.out
               /\ call' = [op |-> "Field()", cls |-> cls, child |-> NULL]
               /\ log' = Append(log, call')
    /\ UNCHANGED <<doc, jmespath, parse_datetime, order, types, threads>>

\* ListField(child=child) and DictField(child=child), child one of the field
\* objects made so far, and ListField() and DictField()
NewContainer ==
    /\ Len(log) < MaxObjects
    /\ \E cls \in {"ListField", "DictField"}, child \in FieldIds \cup {NULL} :
           \E r \in {New_object(heap, cls, [ObjectKwargs EXCEPT !.child = child])} :
               /\ heap' = r.h
               /\ ret' = r.out
               /\ call' = [op |-> "Container()", cls |-> cls, child |-> child]
               /\ log' = Append(log, call')
    /\ UNCHANGED <<doc, jmespath, parse_datetime, order, types, threads>>

InitConstruct ==
    /\ doc = PyDict(EmptyMap)
    /\ order = <<"x", "y">>
    /\ types = RootTypes
    /\ jmespath = FALSE
    /\ parse_datetime = TRUE
    /\ call = NoCall
    /\ ret = NULL
    /\ log = <<>>
    /\ heap = <<>>
    /\ threads = <<>>

NextConstruct == NewChild \/ NewContainer

SpecConstruct == InitConstruct /\ [][NextConstruct]_vars

\* the child given to the construction of the state was constructed with a
\* path source
DeclaresSource(child) == heap[child.id]._kwargs.source # None

\* C18 as stated: the construction of a ListField or DictField raises
\* AssertionError when the child it is given was declared with a path source
\* and succeeds otherwise, also for a child declared without a source that is
\* already the child of another list or dict field
C18_FailsOnlyForDeclaredSource ==
    (call.op = "Container()" /\ call.child # NULL) =>
        IF DeclaresSource(call.child) THEN ret = Raise(AssertionError)
        ELSE ret.k = "ok"

\* a child declared without a source that is the child of an earlier list or
\* dict field was given to a second one, and the construction raised
\* AssertionError
C18_SecondUseOfChildFails ==
    /\ call.op = "Container()"
    /\ call.child # NULL
    /\ ~DeclaresSource(call.child)
    /\ \E i \in 1..(Len(heap) - 1) :
           heap[i].kind = "field" /\ heap[i].child = call.child
    /\ ret = Raise(AssertionError)

(***************************************************************************)
(* The result factory of a schema (SpecResult)                             *)
(***************************************************************************)
\* result_factory= of a schema instance: omitted, None, or a callable
ResultFactories == {NULL, None, Box, Wrap}

\* T(result_factory=f).parse(doc) for the schema class T just defined
SchemaParseResult ==
    /\ call.op = "class"
    /\ \E f \in ResultFactories :
           \E r \in {parse(New(call.name, [DefaultKwargs EXCEPT !.result_factory = f]), doc)} :
               /\ call' = [op |-> "Schema.parse", cls |-> call.name, result_factory |-> f]
               /\ ret' = r.out
               /\ log' = r.log
    /\ UNCHANGED <<doc, jmespath, parse_datetime, order, types, heap, threads>>

InitResult ==
    /\ doc \in SchemaDocs
    /\ order \in Orders
    /\ types = RootTypes
    /\ InitEnv

NextResult == DefineSchema \/ SchemaParseResult

SpecResult == InitResult /\ [][NextResult]_vars

\* the calls of a result factory the parse of the state made
FactoryCalls == SelectSeq(log, LAMBDA e : e.ev = "result_factory")

\* the names of the fields of the schema class the state parsed with
DeclaredNames == DOMAIN types[call.cls]._declared_fields

\* a mapping with exactly one entry per declared field
OnePerField(value) == value.t = "dict" /\ DOMAIN value.m = DeclaredNames

\* C20: a parse of a schema that returns has assembled a mapping with exactly
\* one entry per declared field, under the field's name; with no result
\* factory that mapping is what parse returns, and with one the factory was
\* called exactly once, by the schema itself, on that mapping, and what it
\* returned is what parse returns.  A parse that raises, because a child
\* failed or the document itself was rejected, has called no result factory.
C20_ResultAssembledOnce ==
    call.op = "Schema.parse" =>
        /\ ret.k = "raise" => FactoryCalls = <<>>
        /\ (ret.k = "ok" /\ call.result_factory \in {NULL, None}) =>
               FactoryCalls = <<>> /\ OnePerField(ret.v)
        /\ (ret.k = "ok" /\ call.result_factory \in {Box, Wrap}) =>
               /\ Len(FactoryCalls) = 1
               /\ FactoryCalls[1].f = None
               /\ FactoryCalls[1].x = call.result_factory
               /\ OnePerField(FactoryCalls[1].arg)
               /\ ret.v = IF call.result_factory = Box
                          THEN PyList(<<FactoryCalls[1].arg>>)
                          ELSE PyDict("url" :> FactoryCalls[1].arg)

\* a parse with a result factory has returned what the factory made of the
\* mapping of x and y, y being the default of a field the document lacks
C20_FactoryGivenDefaultOfMissingField ==
    /\ call.op = "Schema.parse"
    /\ call.result_factory = Wrap
    /\ doc = PyDict("x" :> PyInt(1))
    /\ ret = Ok(PyDict("url" :> PyDict(("x" :> PyInt(1)) @@ ("y" :> PyInt(0)))))

(***************************************************************************)
(* Fields constructed with a validators list of the caller (SpecValidators)*)
(***************************************************************************)
\* the most lists the caller makes, and the most fields constructed
MaxLists == 2

MaxFields == 2

\* the constructions of the behaviour that made a list, and a field
ListsMade == SelectSeq(log, LAMBDA e : e.op = "list")

FieldsMade == SelectSeq(log, LAMBDA e : e.op = "field")

\* vs = [] and vs = [MinValue(1)]: a list of the caller
NewList ==
    /\ Len(ListsMade) < MaxLists
    /\ \E items \in {<<>>, <<MinValue(1)>>} :
           /\ heap' = Append(heap, ListObject(items))
           /\ call' = [op |-> "list", id |-> Id(Len(heap) + 1), given |-> items]
    /\ ret' = Ok(call'.id)
    /\ log' = Append(log, call')
    /\ UNCHANGED <<doc, jmespath, parse_datetime, order, types, threads>>

\* Field(validators=vs) and IntegerField(validators=vs, min_value=, max_value=),
\* vs a list of the caller or omitted; given is what vs holds before the call
NewField ==
    /\ Len(FieldsMade) < MaxFields
    /\ \E cls \in {"Field", "IntegerField"},
          vs \in {ListsMade[i].id : i \in DOMAIN ListsMade} \cup {None},
          lo \in {None, PyInt(1)}, hi \in {None, PyInt(2)} :
           /\ cls = "Field" => lo = None /\ hi = None
           /\ \E r \in {New_object(heap, cls, [ObjectKwargs EXCEPT !.validators = vs,
                                                                  !.min_value = lo,
                                                                  !.max_value = hi])} :
                  /\ heap' = r.h
                  /\ ret' = r.out
                  /\ call' = [op |-> "field", id |-> r.out.v, cls |-> cls, vs |-> vs,
                              given |-> IF vs = None THEN <<>> ELSE heap[vs.id].items,
                              own |-> limit_validators(cls, [ObjectKwargs EXCEPT
                                                                !.min_value = lo,
                                                                !.max_value = hi])]
    /\ log' = Append(log, call')
    /\ UNCHANGED <<doc, jmespath, parse_datetime, order, types, threads>>

InitValidators ==
    /\ doc = PyDict(EmptyMap)
    /\ order = <<"x", "y">>
    /\ types = RootTypes
    /\ jmespath = FALSE
    /\ parse_datetime = TRUE
    /\ call = NoCall
    /\ ret = NULL
    /\ log = <<>>
    /\ heap = <<>>
    /\ threads = <<>>

NextValidators == NewList \/ NewField

SpecValidators == InitValidators /\ [][NextValidators]_vars

\* the validators the field of the construction e has now
ValidatorsOf(e) == heap[heap[e.id.id].validators.id].items

\* C21 as stated: the construction of a field leaves the caller's validators
\* list as it was, and every field has the validators it was given followed by
\* the limit validators of its own options, also when another field was
\* constructed with the same list object
C21_CallerListKeptFieldsIndependent ==
    /\ \A i \in DOMAIN ListsMade :
           heap[ListsMade[i].id.id].items = ListsMade[i].given
    /\ \A i \in DOMAIN FieldsMade :
           ValidatorsOf(FieldsMade[i]) = FieldsMade[i].given \o FieldsMade[i].own

\* two IntegerFields were constructed with the one list [MinValue(1)], the
\* first with max_value=2 and the second with no option: the list of the
\* caller, and so the validators of the second field, hold the first field's
\* MaxValue(2)
C21_LimitValidatorShared ==
    /\ Len(FieldsMade) = 2
    /\ FieldsMade[1].vs # None
    /\ FieldsMade[1].vs = FieldsMade[2].vs
    /\ FieldsMade[1].given = <<MinValue(1)>>
    /\ Len(FieldsMade[1].own) = 1
    /\ FieldsMade[2].own = <<>>
    /\ ValidatorsOf(FieldsMade[2]) = <<MinValue(1)>> \o FieldsMade[1].own
    /\ heap[FieldsMade[1].vs.id].items = <<MinValue(1)>> \o FieldsMade[1].own

(***************************************************************************)
(* The validate_<name> methods of a schema (SpecHooks)                     *)
(***************************************************************************)
HookDocs ==
    {PyDict(("x" :> vx) @@ ("empty_values" :> ve)) :
        vx \in {PyInt(0), PyInt(1)},
        ve \in {PyInt(1), None, PyStr(""), PyList(<<>>)}}

HookOrders == {<<"x", "empty_values">>, <<"empty_values", "x">>}

\* the class bodies of Foo: the fields x and empty_values, and no method, or
\* a method validate_x that returns [value] or raises ValidationError; Bar
\* declares nothing of its own
HookFields ==
    {("x" :> px) @@ ("empty_values" :> pe) :
        px \in {New("Field", DefaultKwargs),
                New("IntegerField", [DefaultKwargs EXCEPT !.min_value = PyInt(1)])},
        pe \in {New("Field", DefaultKwargs),
                New("Field", [DefaultKwargs EXCEPT !.null = TRUE, !.blank = TRUE])}}

HookMethods ==
    {EmptyMap, "validate_x" :> Callable("Box"), "validate_x" :> Callable("Reject")}

\* class Foo(Schema): <attrs>; <methods>, and then class Bar(Foo): pass
DefineHooks ==
    /\ call.op \in {"init", "class"}
    /\ \/ /\ "Foo" \notin DOMAIN types
          /\ \E attrs \in HookFields, methods \in HookMethods :
                 types' = ("Foo" :> SchemaMetaClass__new__(<<"Schema">>, attrs, methods))
                          @@ types
          /\ call' = [op |-> "class", name |-> "Foo"]
       \/ /\ "Foo" \in DOMAIN types
          /\ "Bar" \notin DOMAIN types
          /\ types' = ("Bar" :> SchemaMetaClass__new__(<<"Foo">>, EmptyMap, EmptyMap))
                      @@ types
          /\ call' = [op |-> "class", name |-> "Bar"]
    /\ ret' = NULL
    /\ log' = <<>>
    /\ UNCHANGED <<doc, jmespath, parse_datetime, order, heap, threads>>

InitHooks ==
    /\ doc \in HookDocs
    /\ order \in HookOrders
    /\ types = RootTypes
    /\ InitEnv

NextHooks == DefineHooks \/ SchemaParse

SpecHooks == InitHooks /\ [][NextHooks]_vars

\* the method validate_<name> the author of Foo wrote, NULL when there is
\* none; Bar inherits it
AuthorHook(name) ==
    IF ("validate_" \o name) \in DOMAIN types["Foo"].methods
    THEN types["Foo"].methods["validate_" \o name] ELSE NULL

\* what the pipeline of the bound field makes of the document
PipelineValue(name) ==
    parse(bind(deepcopy(types[call.cls]._declared_fields[name]), name, Ref(call.cls)),
          doc).out

\* the names the failure of the parse of the state lists
FailedNames ==
    IF ret.k = "raise" /\ ret.e.exc = "ValidationError"
    THEN {ret.e.messages[i].field_name : i \in DOMAIN ret.e.messages}
    ELSE {}

\* C22 as stated: a field for which the author of the schema class wrote no
\* validate_<name> method, and whose pipeline gives a value, is not a failure
\* of the parse, and its entry in the result is that value unchanged, also
\* for the field named empty_values
C22_OnlyAuthorHooksApplied ==
    call.op = "Schema.parse" =>
        \A name \in DOMAIN types[call.cls]._declared_fields :
            (AuthorHook(name) = NULL /\ PipelineValue(name).k = "ok") =>
                /\ PyStr(name) \notin FailedNames
                /\ ret.k = "ok" => ret.v.m[name] = PipelineValue(name).v

\* a schema class without methods has parsed a document whose empty_values is
\* 1, and the entry of empty_values in the result is not 1 but the pair that
\* Field.validate_empty_values returns
C22_InheritedMethodApplied ==
    /\ call.op = "Schema.parse"
    /\ types["Foo"].methods = EmptyMap
    /\ doc.m["empty_values"] = PyInt(1)
    /\ ret.k = "ok"
    /\ ret.v.m["x"] = doc.m["x"]
    /\ ret.v.m["empty_values"] =
           [t |-> "tuple", l |-> <<[t |-> "bool", b |-> FALSE], PyInt(1)>>]

(***************************************************************************)
(* Schema classes with several bases (SpecBases)                           *)
(***************************************************************************)
\* the class bodies of Foo, Bar and Baz: some of the names, each with one of
\* its prototypes
BaseBodies == UNION {{attrs \in [S -> UNION {Prototypes[n] : n \in S}] : ClassBody(attrs)} :
                     S \in SUBSET Names}

BaseDocs == {PyDict(("x" :> PyInt(1)) @@ ("y" :> PyInt(2))), PyDict("x" :> PyInt(0))}

\* class Foo(Schema): <attrs>, and then class Bar(Schema): <attrs>
DefineBase ==
    /\ call.op \in {"init", "class"}
    /\ "Bar" \notin DOMAIN types
    /\ \E attrs \in BaseBodies :
           /\ types' = ((IF "Foo" \in DOMAIN types THEN "Bar" ELSE "Foo") :>
                           SchemaMetaClass__new__(<<"Schema">>, attrs, EmptyMap))
                       @@ types
           /\ call' = [op |-> "class",
                       name |-> IF "Foo" \in DOMAIN types THEN "Bar" ELSE "Foo"]
    /\ ret' = NULL
    /\ log' = <<>>
    /\ UNCHANGED <<doc, jmespath, parse_datetime, order, heap, threads>>

\* class Baz(Foo, Bar): <attrs> and class Baz(Bar, Foo): <attrs>
DefineDerived ==
    /\ call.op = "class"
    /\ "Bar" \in DOMAIN types
    /\ "Baz" \notin DOMAIN types
    /\ \E bases \in {<<"Foo", "Bar">>, <<"Bar", "Foo">>}, attrs \in BaseBodies :
           types' = ("Baz" :> SchemaMetaClass__new__(bases, attrs, EmptyMap)) @@ types
    /\ call' = [op |-> "class", name |-> "Baz"]
    /\ ret' = NULL
    /\ log' = <<>>
    /\ UNCHANGED <<doc, jmespath, parse_datetime, order, heap, threads>>

InitBases ==
    /\ doc \in BaseDocs
    /\ order \in Orders
    /\ types = RootTypes
    /\ InitEnv

NextBases == DefineBase \/ DefineDerived \/ SchemaParse

SpecBases == InitBases /\ [][NextBases]_vars

\* the names both bases of Baz declare and Baz does not redeclare
InheritedTwice ==
    (DOMAIN types[types["Baz"].bases[1]]._declared_fields
        \cap DOMAIN types[types["Baz"].bases[2]]._declared_fields)
    \ DOMAIN types["Baz"].attrs

\* C23 as stated: for a name that both bases of a schema class declare and
\* the class does not redeclare, the declared field of the class is the one
\* of its first-listed base
C23_FirstListedBaseWins ==
    "Baz" \in DOMAIN types =>
        \A n \in InheritedTwice :
            types["Baz"]._declared_fields[n]
                = types[types["Baz"].bases[1]]._declared_fields[n]

\* Baz(Foo, Bar) does not redeclare x, which Foo and Bar declare differently,
\* and the x of Baz is the x of Bar, the last-listed base
C23_LastListedBaseWins ==
    /\ "Baz" \in DOMAIN types
    /\ types["Baz"].bases = <<"Foo", "Bar">>
    /\ "x" \in InheritedTwice
    /\ types["Foo"]._declared_fields["x"] # types["Bar"]._declared_fields["x"]
    /\ types["Baz"]._declared_fields["x"] = types["Bar"]._declared_fields["x"]

====
